---- MODULE Spec2Model ----
(***************************************************************************)
(* The news aggregation core of Visual-News-app: APIRateLimiter,           *)
(* CircuitBreaker and NewsAPIClient (news-clients.js), CacheManager,       *)
(* DataSanitizer and NewsAggregator (news-aggregator.js).                  *)
(*                                                                         *)
(* Time is the value of Date.now() in milliseconds.  Node runs every       *)
(* callback to completion, so one action is one event-loop turn together   *)
(* with the promise continuations it makes runnable.                       *)
(***************************************************************************)
EXTENDS Integers, Sequences, FiniteSets, TLC

\* ---------------------------------------------------------------- bounds
\* requestsPerMinute of the limiter under test (a constructor argument)
RequestsPerMinute == 2
\* number of makeRequest calls issued to the limiter under test
MaxTasks == 3
\* the clock stops here
MaxTime == 120000
\* makeRequest is called on the limiter under test up to this time
SubmitUntil == 30000

\* number of NewsAPIClient.makeRequest calls
MaxCalls == 8
\* the clock of the cache stops here
MaxCacheTime == 900000
MaxRequests == 2
MaxParams == 3
Surplus == 2

\* ------------------------------------------------------- program constants
\* news-clients.js:29  now - time < 60000
Window == 60000
\* news-clients.js:43  this.delay(1000)
BackoffMs == 1000

\* news-clients.js:59  CircuitBreaker(threshold = 5, timeout = 60000)
FailureThreshold == 5
BreakerTimeout == 60000
\* news-clients.js:108  new APIRateLimiter(100)
NewsApiPerMinute == 100

\* no requestFn awaited, no delay awaited, lastFailureTime = null
NoTask == 0
NoTimer == -1
Null == -1

VARIABLES
    now,        \* Date.now()
    lim,        \* the APIRateLimiter under test
    promise,    \* promise[t]: state of the promise makeRequest returned for task t
    issued,     \* issued[t]: when makeRequest was called for task t (-1: not yet)
    starts,     \* times at which a requestFn was invoked, oldest first
    circuitBreaker, \* NewsAPIClient.circuitBreaker
    rateLimiter,    \* NewsAPIClient.rateLimiter
    call,       \* call[c]: state of the promise of the c-th NewsAPIClient.makeRequest
    consecFails,    \* upstream failures seen since the last upstream success
    openStarts, \* upstream calls started in the current period of state OPEN
    cache,      \* CacheManager.cache: key -> [data, expiry]
    cacheOp,    \* the CacheManager method called last, with its key
    got,        \* what the last CacheManager.get returned and whether it evicted
    written,    \* written[k]: the last set(k, v, ttl) since the last clear()
    mergeIn,    \* the results array handed to mergeResults
    mergeOut,   \* <<>>, or <<what mergeResults returned or that it threw>>
    keyIn,      \* two params objects handed to generateKey
    keyOut,     \* <<>>, or the two keys generateKey returned for them
    config,     \* the config the NewsAggregator was constructed with
    gdeltLimiter,       \* GDELTClient.rateLimiter
    mediaStackLimiter,  \* MediaStackClient.rateLimiter
    req,        \* req[r]: the r-th call of aggregateNews or getNewsByCountry
    res,        \* the HTTP requests the Express routes received, oldest first
    completed,  \* <<r, c>> for every upstream call that settled, oldest first
    settlement, \* settlement[t]: what task t of the limiter under test settled
                \* with and what its caller's promise was settled with
    paramsIn,   \* <<>>, or the params object handed to the validators
    paramsOut   \* <<>>, or what each client put into the params of axios.get

limVars == <<lim, promise, issued, starts, settlement>>
clientVars == <<circuitBreaker, rateLimiter, call, consecFails, openStarts>>
cacheVars == <<cache, cacheOp, got, written>>
mergeVars == <<mergeIn, mergeOut, keyIn, keyOut>>
aggVars == <<config, gdeltLimiter, mediaStackLimiter, req>>
serverVars == <<res, completed, paramsIn, paramsOut>>
vars == <<now, lim, promise, issued, starts,
          circuitBreaker, rateLimiter, call, consecFails, openStarts,
          cache, cacheOp, got, written, mergeIn, mergeOut, keyIn, keyOut,
          config, gdeltLimiter, mediaStackLimiter, req,
          res, completed, settlement, paramsIn, paramsOut>>

Tasks == 1..MaxTasks

\* ------------------------------------------------------------ APIRateLimiter
\* constructor.  running and timer are the await the drain loop is suspended
\* at (lines 36 and 43); drains is the number of processQueue invocations
\* that have passed the test of line 22 and not reached line 47.
NewLimiter ==
    [requests |-> <<>>, queue |-> <<>>, processing |-> FALSE,
     running |-> NoTask, timer |-> NoTimer, drains |-> 0]

\* this.requests.filter(time => now - time < 60000), with seconds for milliseconds
PruneSeconds(requests, t) ==
    SelectSeq(requests, LAMBDA time : t - time < Window \div 1000)

\* this.requests.filter(time => now - time < 60000)
Prune(requests, t) ==
    SelectSeq(requests, LAMBDA time : t - time < Window)

\* DrainStep without line 47, this.processing = false
DrainStepKeepsFlag(l, R, t) ==
    IF Len(l.queue) = 0
    THEN [l EXCEPT !.drains = @ - 1]
    ELSE LET kept == Prune(l.requests, t) IN
         IF Len(kept) < R
         THEN [l EXCEPT !.requests = Append(kept, t),
                        !.queue = Tail(l.queue),
                        !.running = Head(l.queue)]
         ELSE [l EXCEPT !.requests = kept, !.timer = t + BackoffMs]

\* DrainStep with queue.pop() for queue.shift()
DrainStepLifo(l, R, t) ==
    IF Len(l.queue) = 0
    THEN [l EXCEPT !.processing = FALSE, !.drains = @ - 1]
    ELSE LET kept == Prune(l.requests, t) IN
         IF Len(kept) < R
         THEN [l EXCEPT !.requests = Append(kept, t),
                        !.queue = SubSeq(l.queue, 1, Len(l.queue) - 1),
                        !.running = l.queue[Len(l.queue)]]
         ELSE [l EXCEPT !.requests = kept, !.timer = t + BackoffMs]

\* One pass of the while loop of processQueue, from its test to the await it
\* reaches (the requestFn in flight, or the delay) or to the loop's exit.
DrainStep(l, R, t) ==
    IF Len(l.queue) = 0
    THEN [l EXCEPT !.processing = FALSE, !.drains = @ - 1]
    ELSE LET kept == Prune(l.requests, t) IN
         IF Len(kept) < R
         THEN [l EXCEPT !.requests = Append(kept, t),
                        !.queue = Tail(l.queue),
                        !.running = Head(l.queue)]
         ELSE [l EXCEPT !.requests = kept, !.timer = t + BackoffMs]

\* ProcessQueue without the test of this.processing in line 22
ProcessQueueUnguarded(l, R, t) ==
    IF Len(l.queue) = 0
    THEN l
    ELSE DrainStep([l EXCEPT !.processing = TRUE, !.drains = @ + 1], R, t)

\* processQueue, up to its first await
ProcessQueue(l, R, t) ==
    IF l.processing \/ Len(l.queue) = 0
    THEN l
    ELSE DrainStep([l EXCEPT !.processing = TRUE, !.drains = @ + 1], R, t)

\* makeRequest: push, then processQueue
LimiterMakeRequest(l, R, task, t) ==
    ProcessQueue([l EXCEPT !.queue = Append(l.queue, task)], R, t)

\* LimiterTaskSettled pushing the settled task onto the queue again
LimiterTaskSettledRequeues(l, R, t) ==
    DrainStep([l EXCEPT !.running = NoTask, !.queue = Append(@, l.running)], R, t)

\* the awaited requestFn settled: resolve or reject, then the loop goes on
LimiterTaskSettled(l, R, t) ==
    DrainStep([l EXCEPT !.running = NoTask], R, t)

\* the awaited delay elapsed: the loop goes on
LimiterTimerFired(l, R, t) ==
    DrainStep([l EXCEPT !.timer = NoTimer], R, t)

\* no requestFn of the task has settled yet
NoSettlement == [task |-> <<>>, promise |-> <<>>]

\* a requestFn was invoked in the step from l to l2
Started(l, l2) == l2.running # NoTask /\ l2.running # l.running

NoteStart(l, l2, t) ==
    starts' = IF Started(l, l2) THEN Append(starts, t) ELSE starts

\* ------------------------------------------------------------ CircuitBreaker
\* constructor
NewBreaker ==
    [state |-> "CLOSED", failureCount |-> 0, lastFailureTime |-> Null]

\* the check of lines 68-74 with >= for >
BreakerAdmitAtCooldown(b, t) ==
    IF b.state = "OPEN"
    THEN IF t - b.lastFailureTime >= BreakerTimeout
         THEN [breaker |-> [b EXCEPT !.state = "HALF_OPEN"], pass |-> TRUE]
         ELSE [breaker |-> b, pass |-> FALSE]
    ELSE [breaker |-> b, pass |-> TRUE]

\* BreakerAdmit with the rejection counted as a failure (onFailure called
\* before the throw of line 72)
BreakerAdmitCountsRejection(b, t) ==
    IF b.state = "OPEN"
    THEN IF t - b.lastFailureTime > BreakerTimeout
         THEN [breaker |-> [b EXCEPT !.state = "HALF_OPEN"], pass |-> TRUE]
         ELSE [breaker |-> [b EXCEPT !.failureCount = b.failureCount + 1,
                                     !.lastFailureTime = t],
               pass |-> FALSE]
    ELSE [breaker |-> b, pass |-> TRUE]

\* BreakerAdmit letting one call through per HALF_OPEN period: a call made
\* while the state is HALF_OPEN is rejected
BreakerAdmitSingleProbe(b, t) ==
    IF b.state = "OPEN"
    THEN IF t - b.lastFailureTime > BreakerTimeout
         THEN [breaker |-> [b EXCEPT !.state = "HALF_OPEN"], pass |-> TRUE]
         ELSE [breaker |-> b, pass |-> FALSE]
    ELSE IF b.state = "HALF_OPEN"
    THEN [breaker |-> b, pass |-> FALSE]
    ELSE [breaker |-> b, pass |-> TRUE]

\* call(fn), lines 68-74: the check made before fn is invoked.  pass: fn is
\* invoked; otherwise 'Circuit breaker is OPEN' is thrown.
BreakerAdmit(b, t) ==
    IF b.state = "OPEN"
    THEN IF t - b.lastFailureTime > BreakerTimeout
         THEN [breaker |-> [b EXCEPT !.state = "HALF_OPEN"], pass |-> TRUE]
         ELSE [breaker |-> b, pass |-> FALSE]
    ELSE [breaker |-> b, pass |-> TRUE]

\* onSuccess without this.failureCount = 0
OnSuccessKeepsCount(b) == [b EXCEPT !.state = "CLOSED"]

\* onSuccess without this.state = 'CLOSED'
OnSuccessKeepsState(b) == [b EXCEPT !.failureCount = 0]

\* onSuccess
OnSuccess(b) == [b EXCEPT !.failureCount = 0, !.state = "CLOSED"]

\* onFailure without this.lastFailureTime = Date.now() once a time is recorded
OnFailureKeepsTime(b, t) ==
    [b EXCEPT !.failureCount = b.failureCount + 1,
              !.lastFailureTime = IF b.lastFailureTime = Null THEN t
                                  ELSE b.lastFailureTime,
              !.state = IF b.failureCount + 1 >= FailureThreshold
                        THEN "OPEN" ELSE b.state]

\* onFailure with > for >=
OnFailureLate(b, t) ==
    [b EXCEPT !.failureCount = b.failureCount + 1,
              !.lastFailureTime = t,
              !.state = IF b.failureCount + 1 > FailureThreshold
                        THEN "OPEN" ELSE b.state]

\* onFailure
OnFailure(b, t) ==
    [b EXCEPT !.failureCount = b.failureCount + 1,
              !.lastFailureTime = t,
              !.state = IF b.failureCount + 1 >= FailureThreshold
                        THEN "OPEN" ELSE b.state]

\* BreakerSettled with the outcome dropped when the circuit has opened since
\* the call was let through
BreakerSettledIgnoredWhenOpen(b, ok, t) ==
    IF b.state = "OPEN" THEN b
    ELSE IF ok THEN OnSuccess(b) ELSE OnFailure(b, t)

\* call(fn), lines 76-83: fn settled; ok: it fulfilled
BreakerSettled(b, ok, t) == IF ok THEN OnSuccess(b) ELSE OnFailure(b, t)

\* ------------------------------------------------------------- JavaScript values
\* A value is a record tagged by kind: a string is a sequence of tokens (a
\* markup tag is one token), an array has items, an object has fields.
Undefined == [kind |-> "undefined"]
JsNull == [kind |-> "null"]
Str(tokens) == [kind |-> "string", s |-> tokens]
Num(n) == [kind |-> "number", n |-> n]
Arr(items) == [kind |-> "array", items |-> items]
EmptyString == Str(<<>>)

\* ToBoolean
Truthy(v) ==
    CASE v.kind \in {"undefined", "null"} -> FALSE
      [] v.kind = "string" -> v.s # <<>>
      [] v.kind = "number" -> v.n # 0
      [] OTHER -> TRUE

\* a || b
Or(a, b) == IF Truthy(a) THEN a ELSE b

\* v[f] for a v that is neither null nor undefined
Prop(v, f) ==
    IF v.kind = "object" /\ f \in DOMAIN v.fields THEN v.fields[f] ELSE Undefined

\* an operation that threw
Threw == [threw |-> TRUE]
Ok(v) == [threw |-> FALSE, v |-> v]

\* news-aggregator.js:304  merged.articles.slice(0, 200)
MaxMerged == 200
\* news-aggregator.js:136  config.maxArticlesPerSource || 50
DefaultMaxArticlesPerSource == 50

\* ------------------------------------------------------------- DataSanitizer
Tags == {"<b>", "</b>", "<script>", "</script>"}

\* str.replace(/<[^>]*>/g, '')
StripTags(tokens) == SelectSeq(tokens, LAMBDA w : w \notin Tags)

\* sanitizeHtml(str): a truthy value without replace() throws a TypeError
SanitizeHtml(v) ==
    IF ~Truthy(v) THEN Ok(EmptyString)
    ELSE IF v.kind = "string" THEN Ok(Str(StripTags(v.s)))
    ELSE Threw

\* the url of the k-th article of a long response
NumberedUrl(k) == "http://n/" \o ToString(k)

\* the strings new URL() accepts
AbsoluteUrls ==
    {"http://a/1", "http://a/2", "http://b/3", "HTTP://A/1"}
        \cup {NumberedUrl(k) : k \in 1..(MaxMerged + Surplus + 1)}

\* isValidUrl(string)
IsValidUrl(v) ==
    v.kind = "string" /\ Len(v.s) = 1 /\ v.s[1] \in AbsoluteUrls

\* Date.parse of the date strings in use, in milliseconds before (negative) or
\* after the start of the process
DateTable ==
    [w \in {"2024-01-01", "2024-01-02", "2024-01-03"} |->
        CASE w = "2024-01-01" -> -3000
          [] w = "2024-01-02" -> -2000
          [] w = "2024-01-03" -> -1000]

\* 1970-01-01T00:00:00.000Z on the same scale
EpochMs == -100000

\* new Date(v).getTime(), or <<>> for an Invalid Date
DateMs(v) ==
    CASE v.kind = "number" -> <<EpochMs + v.n>>
      [] v.kind = "string" /\ Len(v.s) = 1 /\ v.s[1] \in DOMAIN DateTable ->
            <<DateTable[v.s[1]]>>
      [] v.kind = "null" -> <<EpochMs>>
      [] OTHER -> <<>>

\* normalizeDate(dateString): the ISO string, held as its milliseconds;
\* toISOString() throws on an Invalid Date and the catch returns the time now
NormalizeDate(v, t) == IF DateMs(v) = <<>> THEN t ELSE DateMs(v)[1]

\* the places of knownLocations that occur in a lower-cased word
LocationsIn(w) ==
    CASE w \in {"Syria", "syria", "Syrian"} -> {"syria"}
      [] w \in {"Iraq", "iraq"} -> {"iraq"}
      [] w \in {"woman", "Oman"} -> {"oman"}
      [] OTHER -> {}

\* knownLocations, in the order of the array (those the vocabulary can match)
KnownLocations == <<"syria", "iraq", "oman">>

\* extractLocation(article)
ExtractLocation(title, description) ==
    LET text == title.s \o description.s
        found == UNION {LocationsIn(text[i]) : i \in 1..Len(text)}
    IN  SelectSeq(KnownLocations, LAMBDA place : place \in found)

\* sanitizeArticle(article, source) and, as mergeResults does next,
\* sanitized.locations = extractLocation(sanitized)
SanitizeArticle(article, source, t) ==
    IF article.kind \in {"null", "undefined"} THEN Threw
    ELSE
    LET title == SanitizeHtml(Or(Prop(article, "title"), EmptyString))
        description == SanitizeHtml(Or(Prop(article, "description"), EmptyString))
        content == SanitizeHtml(Or(Prop(article, "content"), EmptyString))
        src == Prop(article, "source")
        name == SanitizeHtml(Or(IF src.kind \in {"null", "undefined"}
                                THEN Undefined ELSE Prop(src, "name"),
                                Str(<<"Unknown">>)))
        author == SanitizeHtml(Or(Prop(article, "author"), EmptyString))
    IN  IF title.threw \/ description.threw \/ content.threw
           \/ name.threw \/ author.threw
        THEN Threw
        ELSE Ok([title |-> title.v,
                 description |-> description.v,
                 content |-> content.v,
                 url |-> IF IsValidUrl(Prop(article, "url"))
                         THEN Prop(article, "url") ELSE JsNull,
                 publishedAt |-> NormalizeDate(Or(Prop(article, "publishedAt"),
                                                  Prop(article, "published_at")), t),
                 source |-> [name |-> name.v, api |-> source],
                 author |-> author.v,
                 urlToImage |-> IF IsValidUrl(Prop(article, "urlToImage"))
                                THEN Prop(article, "urlToImage") ELSE JsNull,
                 locations |-> ExtractLocation(title.v, description.v)])

\* ------------------------------------------------ NewsAggregator.mergeResults

Min(a, b) == IF a < b THEN a ELSE b

\* array.slice(0, n)
Slice(items, n) == SubSeq(items, 1, Min(n, Len(items)))

\* Lines 265-276: the array of raw articles of one provider's response.
\* Reading a property of null or undefined throws.
ExtractArticles(data, maxPerSource) ==
    IF data.kind \in {"null", "undefined"} THEN Threw
    ELSE IF Truthy(Prop(data, "articles")) THEN Ok(Prop(data, "articles"))
    ELSE IF Truthy(Prop(data, "articles")) /\ Prop(data, "articles").kind = "array"
         THEN Ok(Prop(data, "data"))
    ELSE IF data.kind = "array" THEN Ok(Arr(Slice(data.items, maxPerSource)))
    ELSE Ok(Arr(<<>>))

\* Lines 279-283: articles.forEach(sanitize and push); a value without
\* forEach, or one article that makes sanitizeArticle throw, throws.
SanitizeEach(articles, source, t) ==
    IF articles.kind # "array" THEN Threw
    ELSE IF \E i \in 1..Len(articles.items) :
               SanitizeArticle(articles.items[i], source, t).threw
    THEN Threw
    ELSE Ok([i \in 1..Len(articles.items) |->
                SanitizeArticle(articles.items[i], source, t).v])

\* line 242-251
EmptyMerged(t) ==
    [articles |-> <<>>, sources |-> <<>>, errors |-> <<>>,
     metadata |-> [totalSources |-> 0, successfulSources |-> 0, timestamp |-> t]]

\* CollectFrom with merged.metadata.totalSources++ moved into the else branch
RECURSIVE CollectFromCountsSuccesses(_, _, _, _, _)
CollectFromCountsSuccesses(results, i, merged, maxPerSource, t) ==
    IF i > Len(results) THEN Ok(merged)
    ELSE
    LET r == results[i]
    IN  IF ~r.success
        THEN CollectFromCountsSuccesses(results, i + 1,
                 [merged EXCEPT
                    !.errors = Append(@, [source |-> r.source, error |-> r.error])],
                 maxPerSource, t)
        ELSE
        LET raw == ExtractArticles(r.data, maxPerSource)
            clean == IF raw.threw THEN Threw ELSE SanitizeEach(raw.v, r.source, t)
        IN  IF clean.threw THEN Threw
            ELSE CollectFromCountsSuccesses(results, i + 1,
                     [merged EXCEPT
                        !.metadata.totalSources = @ + 1,
                        !.metadata.successfulSources = @ + 1,
                        !.sources = Append(@, r.source),
                        !.articles = @ \o clean.v],
                     maxPerSource, t)

\* Lines 253-286: results.forEach from the i-th result on.  Every result is
\* fulfilled, as each promise ends in a catch that returns a value.
RECURSIVE CollectFrom(_, _, _, _, _)
CollectFrom(results, i, merged, maxPerSource, t) ==
    IF i > Len(results) THEN Ok(merged)
    ELSE
    LET r == results[i]
        counted == [merged EXCEPT !.metadata.totalSources = @ + 1]
    IN  IF ~r.success
        THEN CollectFrom(results, i + 1,
                 [counted EXCEPT
                    !.errors = Append(@, [source |-> r.source, error |-> r.error])],
                 maxPerSource, t)
        ELSE
        LET raw == ExtractArticles(r.data, maxPerSource)
            clean == IF raw.threw THEN Threw ELSE SanitizeEach(raw.v, r.source, t)
        IN  IF clean.threw THEN Threw
            ELSE CollectFrom(results, i + 1,
                     [counted EXCEPT
                        !.metadata.successfulSources = @ + 1,
                        !.sources = Append(@, r.source),
                        !.articles = @ \o clean.v],
                     maxPerSource, t)

\* array.filter(keep), keep being told the index: the elements whose index
\* is in kept, in the order of the array
FilterByIndex(items, kept) ==
    LET tagged == [k \in 1..Len(items) |-> [k |-> k, item |-> items[k]]]
        chosen == SelectSeq(tagged, LAMBDA e : e.k \in kept)
    IN  [n \in 1..Len(chosen) |-> chosen[n].item]

\* the filter of lines 289-296 without seen.add(article.url)
DedupFromForgetful(articles, i, seen) ==
    FilterByIndex(articles,
        {k \in i..Len(articles) :
            /\ Truthy(articles[k].url)
            /\ articles[k].url \notin seen})

\* Lines 289-296: the filter on url with the Set seen, from the i-th article
\* on.  When article k is tested, seen holds the urls it held at first and
\* the truthy urls of the articles before k.
DedupFrom(articles, i, seen) ==
    FilterByIndex(articles,
        {k \in i..Len(articles) :
            /\ Truthy(articles[k].url)
            /\ articles[k].url \notin seen
            /\ \A j \in i..(k - 1) : articles[j].url # articles[k].url})

\* the comparator with a and b exchanged
CompareByDateAscending(a, b) == a.publishedAt - b.publishedAt

\* Line 300: (a, b) => new Date(b.publishedAt) - new Date(a.publishedAt)
CompareByDate(a, b) == b.publishedAt - a.publishedAt

\* Lines 299-301: articles.sort(comparator).  The sort is stable: an article
\* comes behind those the comparator puts before it and behind the earlier
\* ones it ties with.
SortByDate(articles) ==
    LET n == Len(articles)
        place == [k \in 1..n |->
                    1 + Cardinality({j \in 1..n :
                            \/ CompareByDate(articles[j], articles[k]) < 0
                            \/ /\ j < k
                               /\ CompareByDate(articles[j], articles[k]) = 0})]
    IN  [p \in 1..n |-> articles[CHOOSE k \in 1..n : place[k] = p]]

\* mergeResults(results) with the slice of line 304 made before the filter
\* and the sort
MergeResultsSliceFirst(results, maxPerSource, t) ==
    LET collected == CollectFrom(results, 1, EmptyMerged(t), maxPerSource, t)
    IN  IF collected.threw THEN Threw
        ELSE Ok([collected.v EXCEPT
                    !.articles = SortByDate(DedupFrom(Slice(@, MaxMerged), 1, {}))])

\* mergeResults(results)
MergeResults(results, maxPerSource, t) ==
    LET collected == CollectFrom(results, 1, EmptyMerged(t), maxPerSource, t)
    IN  IF collected.threw THEN Threw
        ELSE Ok([collected.v EXCEPT
                    !.articles = Slice(SortByDate(DedupFrom(@, 1, {})), MaxMerged)])

\* ------------------------------------------------------- upstream responses
Obj(fields) == [kind |-> "object", fields |-> fields]

\* raw articles as the providers send them
N1 == Obj([url |-> Str(<<"http://a/1">>), publishedAt |-> Str(<<"2024-01-03">>),
           title |-> Str(<<"<b>", "Syria", "talks", "</b>">>),
           source |-> Obj([name |-> Str(<<"BBC">>)])])
N2 == Obj([url |-> Str(<<"http://a/2">>), publishedAt |-> Str(<<"2024-01-01">>),
           title |-> Str(<<"Iraq">>)])
\* a title that is not a string
NBadTitle == Obj([url |-> Str(<<"http://b/3">>),
                  publishedAt |-> Str(<<"2024-01-02">>), title |-> Num(5)])
\* a url that new URL() rejects
NBadUrl == Obj([url |-> Str(<<"not", "a", "url">>),
                publishedAt |-> Str(<<"2024-01-02">>), title |-> Str(<<"woman">>)])
G1 == Obj([url |-> Str(<<"http://b/3">>), publishedAt |-> Str(<<"2024-01-02">>),
           title |-> Str(<<"Oman">>)])
\* the url of N1 again
G2 == Obj([url |-> Str(<<"http://a/1">>), publishedAt |-> Str(<<"2024-01-01">>),
           title |-> Str(<<"Syrian">>)])
\* no date
G3 == Obj([url |-> Str(<<"HTTP://A/1">>), title |-> Str(<<"talks">>)])
M1 == Obj([url |-> Str(<<"http://a/2">>), published_at |-> Str(<<"2024-01-03">>),
           title |-> Str(<<"Syria">>)])
M2 == Obj([url |-> Str(<<"http://b/3">>), published_at |-> Str(<<"someday">>),
           title |-> Str(<<"Iraq">>)])

Clients == <<"newsapi", "gdelt", "mediastack">>

\* response.data of a successful call, per provider: NewsAPI an object with
\* articles, GDELT an array, MediaStack an object with data
Responses(c) ==
    CASE c = "newsapi" ->
            {Obj([status |-> Str(<<"ok">>), articles |-> Arr(<<N1, N2>>)]),
             Obj([status |-> Str(<<"ok">>), articles |-> Arr(<<NBadUrl, N1>>)]),
             Obj([status |-> Str(<<"ok">>), articles |-> Arr(<<NBadTitle, N2>>)])}
      [] c = "gdelt" ->
            {Arr(<<G1, G2>>), Arr(<<G3>>), Arr(<<G1, JsNull>>), Arr(<<>>)}
      [] c = "mediastack" ->
            {Obj([data |-> Arr(<<M1, M2>>)]), Obj([data |-> Arr(<<M2>>)])}

\* error.message of a failed call
ErrorMessages == {Str(<<"timeout of 10000ms exceeded">>)}

\* what the then and the catch of lines 158-159 make of a settled call
Success(c, data) == [source |-> c, success |-> TRUE, data |-> data, error |-> Undefined]
Failure(c, message) ==
    [source |-> c, success |-> FALSE, data |-> Undefined, error |-> message]

ResultsOf(c) ==
    {Success(c, d) : d \in Responses(c)} \cup {Failure(c, m) : m \in ErrorMessages}

\* The results arrays mergeResults can be handed: the configured clients in
\* the order of the pushes, GDELT always among them.
MergeInputs ==
    {n \o g \o m : n \in {<<>>} \cup {<<r>> : r \in ResultsOf("newsapi")},
                   g \in {<<r>> : r \in ResultsOf("gdelt")},
                   m \in {<<>>} \cup {<<r>> : r \in ResultsOf("mediastack")}}

\* -------------------------------------------------------------- CacheManager
\* news-aggregator.js:9  this.defaultTTL = 5 * 60 * 1000
DefaultTTL == 5 * 60 * 1000
\* news-aggregator.js:237  10 * 60 * 1000
CountryTTL == 10 * 60 * 1000

\* new Map()
EmptyCache == <<>>

Remove(m, k) == [x \in DOMAIN m \ {k} |-> m[x]]

\* get(key) that also deletes every other expired entry
CacheGetSweeping(m, k, t) ==
    LET live == [x \in {y \in DOMAIN m : m[y].expiry > t} |-> m[x]]
    IN  IF k \in DOMAIN live
        THEN [cache |-> live, value |-> <<m[k].data>>]
        ELSE [cache |-> live, value |-> <<>>]

\* get(key) with >= for >
CacheGetInclusive(m, k, t) ==
    IF k \in DOMAIN m /\ m[k].expiry >= t
    THEN [cache |-> m, value |-> <<m[k].data>>]
    ELSE [cache |-> Remove(m, k), value |-> <<>>]

\* get(key): value is <<data>>, or <<>> for null
CacheGet(m, k, t) ==
    IF k \in DOMAIN m /\ m[k].expiry > t
    THEN [cache |-> m, value |-> <<m[k].data>>]
    ELSE [cache |-> Remove(m, k), value |-> <<>>]

\* set(key, data, ttl) with the default for the ttl handed in
CacheSetDefaultTtl(m, k, data, ttl, t) ==
    [x \in DOMAIN m \cup {k} |->
        IF x = k THEN [data |-> data, expiry |-> t + DefaultTTL] ELSE m[x]]

\* set(key, data, ttl) with expiry: Date.now(), the ttl left out
CacheSetNoTtl(m, k, data, ttl, t) ==
    [x \in DOMAIN m \cup {k} |->
        IF x = k THEN [data |-> data, expiry |-> t] ELSE m[x]]

\* set(key, data, ttl) that leaves an entry already in the map as it is
CacheSetKeepsExisting(m, k, data, ttl, t) ==
    [x \in DOMAIN m \cup {k} |->
        IF x = k /\ k \notin DOMAIN m
        THEN [data |-> data, expiry |-> t + ttl] ELSE m[x]]

\* set(key, data, ttl)
CacheSet(m, k, data, ttl, t) ==
    [x \in DOMAIN m \cup {k} |->
        IF x = k THEN [data |-> data, expiry |-> t + ttl] ELSE m[x]]

\* clear()
CacheClear(m) == EmptyCache

\* size()
CacheSize(m) == Cardinality(DOMAIN m)

\* ------------------------------------------------------------ NewsAggregator
\* An object literal is the sequence of its <<name, value>> properties in
\* insertion order; NoValue is a property holding undefined.
NoValue == "\\undefined"

\* obj[name] = value
Assign(obj, name, value) ==
    IF \E i \in 1..Len(obj) : obj[i][1] = name
    THEN [i \in 1..Len(obj) |-> IF obj[i][1] = name THEN <<name, value>> ELSE obj[i]]
    ELSE Append(obj, <<name, value>>)

\* { ...obj, ...src }
RECURSIVE Spread(_, _)
Spread(obj, src) ==
    IF src = <<>> THEN obj
    ELSE Spread(Assign(obj, Head(src)[1], Head(src)[2]), Tail(src))

\* the parameter names in use, in the order Array.prototype.sort puts them
ParamOrder == <<"country", "language", "query", "timespan">>

\* SortedParams without .sort()
SortedParamsAsGiven(params) == params

\* Object.keys(params).sort().reduce(...): the properties in key order
SortedParams(params) ==
    LET at(name) == CHOOSE i \in 1..Len(params) : params[i][1] = name
        present == SelectSeq(ParamOrder,
                       LAMBDA name : \E i \in 1..Len(params) : params[i][1] = name)
    IN  [i \in 1..Len(present) |-> params[at(present[i])]]

\* JSON.stringify(object): a property holding undefined is left out
Stringify(obj) == SelectSeq(obj, LAMBDA p : p[2] # NoValue)

\* generateKey(service, endpoint, params): the three parts the template joins
GenerateKey(service, endpoint, params) ==
    <<service, endpoint, Stringify(SortedParams(params))>>

\* Configured with every client constructed whatever the config holds
ConfiguredAll(cfg) == <<"newsapi", "gdelt", "mediastack">>

\* this.clients, in the order aggregateNews and getNewsByCountry push promises
Configured(cfg) ==
    (IF cfg.newsApiKey THEN <<"newsapi">> ELSE <<>>)
        \o <<"gdelt">>
        \o (IF cfg.mediaStackKey THEN <<"mediastack">> ELSE <<>>)

ClientSet == {Clients[i] : i \in 1..Len(Clients)}

IsConfigured(cfg, c) == \E i \in 1..Len(Configured(cfg)) : Configured(cfg)[i] = c

\* news-clients.js:198  new APIRateLimiter(1000)
GdeltPerMinute == 1000
\* news-clients.js:237  new APIRateLimiter(100)
MediaStackPerMinute == 100

RateOf(c) ==
    CASE c = "newsapi" -> NewsApiPerMinute
      [] c = "gdelt" -> GdeltPerMinute
      [] c = "mediastack" -> MediaStackPerMinute

\* !query || query.trim().length === 0
BlankStrings == {"", "  "}

\* a client whose promise is not settled has no result yet
NoResult == [source |-> "none", success |-> FALSE, data |-> Undefined, error |-> Undefined]

NoRequest ==
    [state |-> "none", op |-> "none", key |-> <<>>, hit |-> FALSE,
     pending |-> {}, results |-> [c \in ClientSet |-> NoResult],
     value |-> <<>>, http |-> [c \in ClientSet |-> 0]]

\* TtlOf with the ttl argument of line 237 left to the default of set
TtlOfAlwaysDefault(op) == DefaultTTL

\* the ttl handed to cache.set, lines 191 and 237
TtlOf(op) == IF op = "aggregated" THEN DefaultTTL ELSE CountryTTL

\* ResultsArray with the results in the order in which the upstream calls of
\* the request settled, the one settling now and those that never reached
\* the upstream last
ResultsArrayAsCompleted(cfg, q) ==
    LET r == CHOOSE x \in DOMAIN req :
                /\ req[x].state = "waiting"
                /\ q.pending \subseteq req[x].pending
                /\ Cardinality(req[x].pending \ q.pending) = 1
                /\ \A c \in ClientSet \ (req[x].pending \ q.pending) :
                      req[x].results[c] = q.results[c]
        mine == SelectSeq(completed, LAMBDA p : p[1] = r)
        rest == SelectSeq(Configured(cfg),
                          LAMBDA c : \A i \in 1..Len(mine) : mine[i][2] # c)
    IN  [i \in 1..Len(mine) |-> q.results[mine[i][2]]]
            \o [i \in 1..Len(rest) |-> q.results[rest[i]]]

\* the results array Promise.allSettled resolves to
ResultsArray(cfg, q) ==
    [i \in 1..Len(Configured(cfg)) |-> q.results[Configured(cfg)[i]]]

\* ------------------------------------------------------------ initial state
Calls == 1..MaxCalls

\* new APIRateLimiter(RequestsPerMinute)
LimiterInit ==
    /\ lim = NewLimiter
    /\ promise = [t \in Tasks |-> "none"]
    /\ issued = [t \in Tasks |-> -1]
    /\ starts = <<>>
    /\ settlement = [t \in Tasks |-> NoSettlement]

\* new NewsAPIClient(apiKey)
ClientInit ==
    /\ circuitBreaker = NewBreaker
    /\ rateLimiter = NewLimiter
    /\ call = [c \in Calls |-> "none"]
    /\ consecFails = 0
    /\ openStarts = 0

\* the keys and values of the CacheManager on its own
Keys == {"k1", "k2"}
Values == {"v1", "v2"}

\* new CacheManager()
CacheInit ==
    /\ cache = EmptyCache
    /\ cacheOp = <<"new">>
    /\ got = [value |-> <<>>, evicted |-> FALSE]
    /\ written = [k \in Keys |-> <<>>]

Requests == 1..MaxRequests

\* new GDELTClient(), new MediaStackClient(key); no call made yet
AggregatorInit ==
    /\ gdeltLimiter = NewLimiter
    /\ mediaStackLimiter = NewLimiter
    /\ req = [r \in Requests |-> NoRequest]

\* both credentials supplied
AllKeys == [newsApiKey |-> TRUE, mediaStackKey |-> TRUE]

\* everything but the argument of the mergeResults call under test and the
\* config of the aggregator
CoreInit ==
    /\ now = 0
    /\ LimiterInit
    /\ ClientInit
    /\ CacheInit
    /\ AggregatorInit
    /\ mergeOut = <<>>
    /\ keyOut = <<>>
    /\ res = <<>>
    /\ completed = <<>>
    /\ paramsOut = <<>>

Init ==
    /\ CoreInit
    /\ mergeIn = <<>>
    /\ keyIn = <<>>
    /\ paramsIn = <<>>
    /\ config = AllKeys

\* ---------------------------------------------- the limiter on its own
NextTask == Cardinality({t \in Tasks : promise[t] # "none"}) + 1

\* a caller calls makeRequest(requestFn)
Submit ==
    /\ NextTask \in Tasks
    /\ now <= SubmitUntil
    /\ lim' = LimiterMakeRequest(lim, RequestsPerMinute, NextTask, now)
    /\ promise' = [promise EXCEPT ![NextTask] = "pending"]
    /\ issued' = [issued EXCEPT ![NextTask] = now]
    /\ NoteStart(lim, lim', now)
    /\ UNCHANGED <<now, settlement>>

\* what a requestFn fulfils with and what it throws
TaskValues == {"response.data"}
TaskErrors == {"timeout of 10000ms exceeded", "Request failed with status code 429"}

\* LimiterSettles with the error replaced by one of the limiter's making
LimiterSettlesWrapped(ok, x) ==
    [task |-> <<ok, x>>,
     promise |-> <<ok, IF ok THEN x ELSE "Rate limiter: request failed">>]

\* lines 35-40: the task settled with x (ok: it fulfilled) and resolve(result)
\* or reject(error) is called with it
LimiterSettles(ok, x) == [task |-> <<ok, x>>, promise |-> <<ok, x>>]

\* the requestFn in flight settles; ok: it fulfilled
Settle(ok) ==
    /\ lim.running # NoTask
    /\ lim' = LimiterTaskSettled(lim, RequestsPerMinute, now)
    /\ \E x \in IF ok THEN TaskValues ELSE TaskErrors :
          /\ settlement' = [settlement EXCEPT ![lim.running] = LimiterSettles(ok, x)]
          /\ promise' = [promise EXCEPT
                           ![lim.running] =
                              IF settlement'[lim.running].promise[1]
                              THEN "resolved" ELSE "rejected"]
    /\ NoteStart(lim, lim', now)
    /\ UNCHANGED <<now, issued>>

\* the setTimeout of delay(1000) fires
TimerFired ==
    /\ lim.timer # NoTimer
    /\ now >= lim.timer
    /\ lim' = LimiterTimerFired(lim, RequestsPerMinute, now)
    /\ NoteStart(lim, lim', now)
    /\ UNCHANGED <<now, promise, issued, settlement>>

\* The clock moves to the deadline of the pending delay, or half a window on.
LimiterTick ==
    /\ \E t \in {now + Window \div 2} \cup
                 (IF lim.timer > now THEN {lim.timer} ELSE {}) :
          /\ t <= MaxTime
          /\ now' = t
    /\ UNCHANGED limVars

LimiterNext ==
    \/ Submit /\ UNCHANGED <<clientVars, cacheVars, mergeVars, aggVars, serverVars>>
    \/ \E ok \in BOOLEAN : Settle(ok) /\ UNCHANGED <<clientVars, cacheVars, mergeVars, aggVars, serverVars>>
    \/ TimerFired /\ UNCHANGED <<clientVars, cacheVars, mergeVars, aggVars, serverVars>>
    \/ LimiterTick /\ UNCHANGED <<clientVars, cacheVars, mergeVars, aggVars, serverVars>>

SpecLimiter == Init /\ [][LimiterNext]_vars

\* Every requestFn in flight settles (axios has a timeout), timers fire and
\* the clock advances.
LimiterFairness ==
    /\ WF_vars((\E ok \in BOOLEAN : Settle(ok))
                 /\ UNCHANGED <<clientVars, cacheVars, mergeVars, aggVars, serverVars>>)
    /\ WF_vars(TimerFired /\ UNCHANGED <<clientVars, cacheVars, mergeVars, aggVars, serverVars>>)
    /\ WF_vars(LimiterTick /\ UNCHANGED <<clientVars, cacheVars, mergeVars, aggVars, serverVars>>)

SpecLimiterFair == SpecLimiter /\ LimiterFairness

\* task t is in the queue
InQueue(queue, t) == \E i \in 1..Len(queue) : queue[i] = t

\* number of requestFn invocations at times in (lo, hi]
StartsIn(lo, hi) ==
    Cardinality({i \in 1..Len(starts) : lo < starts[i] /\ starts[i] <= hi})

Settled(t) == promise[t] \in {"resolved", "rejected"}

\* C1: at most RequestsPerMinute requestFn invocations start within any
\* trailing 60-second window (it is enough to look at the windows that end at
\* an invocation), and the retained timestamp window never holds more than
\* RequestsPerMinute entries.
C1_RateBound ==
    /\ \A i \in 1..Len(starts) :
          StartsIn(starts[i] - Window, starts[i]) <= RequestsPerMinute
    /\ Len(lim.requests) <= RequestsPerMinute

\* more than RequestsPerMinute calls were issued at one instant and all of
\* them have been started
C1_BurstServed ==
    /\ MaxTasks > RequestsPerMinute
    /\ \A t \in Tasks : issued[t] = 0
    /\ Len(starts) = MaxTasks

\* C2: every task handed to makeRequest is eventually executed and its
\* promise resolved or rejected.
C2_NoTaskDropped ==
    \A t \in Tasks : (promise[t] = "pending") ~> Settled(t)

\* more tasks than the window admits were queued and every one has settled
C2_AllSettled ==
    /\ MaxTasks > RequestsPerMinute
    /\ \A t \in Tasks : Settled(t)
    /\ \E t \in Tasks : promise[t] = "rejected"

\* C28: a promise of makeRequest is rejected only when its own task threw,
\* and with the very error the task threw (as it is resolved only with the
\* value its task returned); and when a promise has been rejected, every
\* task still waiting is executed and settled in its turn.
C28_FailurePassedOn ==
    /\ [](\A t \in Tasks :
            /\ promise[t] = "rejected" =>
                  /\ settlement[t].task[1] = FALSE
                  /\ settlement[t].task[2] \in TaskErrors
                  /\ settlement[t].promise = settlement[t].task
            /\ promise[t] = "resolved" =>
                  /\ settlement[t].task[1] = TRUE
                  /\ settlement[t].promise = settlement[t].task
            /\ promise[t] \in {"none", "pending"} => settlement[t] = NoSettlement)
    /\ \A t, u \in Tasks :
          (promise[t] = "rejected" /\ promise[u] = "pending") ~> Settled(u)

\* three tasks were queued at one instant; the first failed, its caller got
\* the task's error, and the two behind it were executed and fulfilled
C28_LaterTasksServed ==
    /\ MaxTasks >= 3
    /\ \A t \in Tasks : issued[t] = 0
    /\ promise[1] = "rejected"
    /\ settlement[1].promise = <<FALSE, "Request failed with status code 429">>
    /\ \A t \in Tasks \ {1} : promise[t] = "resolved"
    /\ Len(starts) = MaxTasks

\* the drain loop is suspended at the await of a requestFn, at the await of
\* the delay
AwaitsTask(l) == l.running # NoTask
AwaitsDelay(l) == l.timer # NoTimer

\* C31: between two turns of the event loop a limiter with a non-empty queue
\* has processing = true, at most one drain loop is active, processing is
\* true exactly while one is, and an active loop is suspended at exactly one
\* await (a requestFn or the delay), an idle limiter at none; for every
\* interleaving of makeRequest calls, completions and timers.
C31_NoLostWakeup ==
    /\ Len(lim.queue) > 0 => lim.processing
    /\ lim.drains \in {0, 1}
    /\ lim.processing <=> lim.drains = 1
    /\ lim.processing => AwaitsTask(lim) # AwaitsDelay(lim)
    /\ ~lim.processing => ~AwaitsTask(lim) /\ ~AwaitsDelay(lim)

\* the loop ran out of work and ended after two tasks; a third makeRequest
\* started a new loop, which waits for the rate window with the task queued
C31_WokenAgain ==
    /\ \E t, u \in Tasks : t # u /\ Settled(t) /\ Settled(u)
    /\ \E t \in Tasks : lim.queue = <<t>> /\ promise[t] = "pending"
    /\ AwaitsDelay(lim)
    /\ lim.processing
    /\ lim.drains = 1

\* the tasks whose requestFn has been invoked and has not settled
InFlight == {t \in Tasks : promise[t] = "pending" /\ ~InQueue(lim.queue, t)}

\* the tasks whose requestFn has been invoked
Begun(l, p) == {t \in Tasks : p[t] # "none" /\ ~InQueue(l.queue, t)}

\* C32: at most one requestFn of a limiter is in flight at any time; a task
\* is started only in a step in which no other task stays in flight, when
\* every task submitted before it has been started, and tasks are numbered in
\* the order of submission, so they start in that order.
C32_OneAtATimeInOrder ==
    /\ [](Cardinality(InFlight) <= 1)
    /\ [][\A t \in Tasks :
            t \in Begun(lim', promise') \ Begun(lim, promise) =>
               /\ \A u \in Tasks \ {t} : promise'[u] # "pending" \/ InQueue(lim'.queue, u)
               /\ \A u \in 1..(t - 1) : u \in Begun(lim, promise)
               /\ \A u \in (t + 1)..MaxTasks : u \notin Begun(lim', promise')
               /\ lim'.running = t]_vars

\* two tasks were submitted at one instant, the first is in flight and the
\* second waits in the queue although the rate window has a free slot
C32_QueuedBehindRunning ==
    /\ InFlight = {1}
    /\ lim.queue = <<2>>
    /\ issued[1] = issued[2]
    /\ Len(Prune(lim.requests, now)) < RequestsPerMinute

\* ------------------------------------------------ NewsAPIClient.makeRequest
\* circuitBreaker.call(() => rateLimiter.makeRequest(() => axios.get(...)))
CallsMade == Cardinality({c \in Calls : call[c] # "none"})

\* One call of NewsAPIClient.makeRequest, up to its first await: the breaker's
\* check and, when it passes, rateLimiter.makeRequest, which invokes axios.get
\* at once when the limiter is idle.
Call ==
    LET c == CallsMade + 1
        adm == BreakerAdmit(circuitBreaker, now)
    IN  /\ c \in Calls
        /\ circuitBreaker' = adm.breaker
        /\ IF adm.pass
           THEN /\ rateLimiter' =
                     LimiterMakeRequest(rateLimiter, NewsApiPerMinute, c, now)
                /\ call' = [call EXCEPT ![c] = "pending"]
           ELSE /\ rateLimiter' = rateLimiter
                /\ call' = [call EXCEPT ![c] = "refused"]
        /\ openStarts' = IF adm.breaker.state = "OPEN" THEN openStarts ELSE 0
        /\ UNCHANGED <<now, consecFails>>

\* The HTTP call in flight settles.  In one turn: the limiter resolves or
\* rejects the promise and its loop starts the next queued call; then the
\* breaker's await continues with onSuccess or onFailure.
Respond(ok) ==
    LET c == rateLimiter.running
        l2 == LimiterTaskSettled(rateLimiter, NewsApiPerMinute, now)
        b2 == BreakerSettled(circuitBreaker, ok, now)
        startedOpen == Started(rateLimiter, l2) /\ circuitBreaker.state = "OPEN"
    IN  /\ c # NoTask
        /\ rateLimiter' = l2
        /\ circuitBreaker' = b2
        /\ call' = [call EXCEPT ![c] = IF ok THEN "resolved" ELSE "rejected"]
        /\ consecFails' = IF ok THEN 0 ELSE consecFails + 1
        /\ openStarts' =
             IF circuitBreaker.state = "OPEN" /\ b2.state = "OPEN"
             THEN openStarts + (IF startedOpen THEN 1 ELSE 0)
             ELSE 0
        /\ UNCHANGED now

\* The clock moves half a cooldown on.
ClientTick ==
    /\ now + BreakerTimeout \div 2 <= MaxTime
    /\ now' = now + BreakerTimeout \div 2
    /\ UNCHANGED <<clientVars, cacheVars, mergeVars, aggVars, serverVars>>

\* With fewer than 100 calls the limiter of NewsAPIClient never waits, so its
\* delay timer is never set.
ClientNext ==
    \/ Call /\ UNCHANGED <<limVars, cacheVars, mergeVars, aggVars, serverVars>>
    \/ \E ok \in BOOLEAN : Respond(ok) /\ UNCHANGED <<limVars, cacheVars, mergeVars, aggVars, serverVars>>
    \/ ClientTick /\ UNCHANGED <<limVars, cacheVars, mergeVars, aggVars, serverVars>>

SpecClient == Init /\ [][ClientNext]_vars

\* the step is a call of NewsAPIClient.makeRequest, the c-th
CallStep(c) == call[c] = "none" /\ call'[c] # "none"

\* the cooldown has not elapsed since lastFailureTime
CoolingDown == now - circuitBreaker.lastFailureTime <= BreakerTimeout

\* C3: after FailureThreshold failed calls with no success since, and until
\* the cooldown has elapsed since the last failure, the breaker is OPEN and
\* every call is rejected with the circuit-open error without the wrapped
\* function being invoked (nothing reaches the limiter).
C3_OpenRejects ==
    /\ [](consecFails >= FailureThreshold /\ CoolingDown
            => circuitBreaker.state = "OPEN")
    /\ [][\A c \in Calls :
            consecFails >= FailureThreshold /\ CoolingDown /\ CallStep(c)
              => call'[c] = "refused" /\ rateLimiter' = rateLimiter]_vars

\* the breaker opened after FailureThreshold failures and refused a call
C3_Refused ==
    /\ consecFails = FailureThreshold
    /\ circuitBreaker.state = "OPEN"
    /\ \E c \in Calls : call[c] = "refused"

\* C4: during one period in which the breaker state is OPEN at most one
\* upstream HTTP call is started.
C4_OneCallWhileOpen == openStarts <= 1

\* C5: a call made on an OPEN breaker once the cooldown has elapsed invokes
\* the wrapped function as the HALF_OPEN probe; a success moves the breaker
\* to CLOSED with failureCount = 0; and a call made on a CLOSED breaker is
\* passed through.
C5_ProbeRestores ==
    [][/\ \A c \in Calls :
            circuitBreaker.state = "OPEN" /\ ~CoolingDown /\ CallStep(c)
              => /\ call'[c] = "pending"
                 /\ circuitBreaker'.state = "HALF_OPEN"
                 /\ \/ rateLimiter'.running = c
                    \/ \E i \in 1..Len(rateLimiter'.queue) :
                          rateLimiter'.queue[i] = c
       /\ \A c \in Calls :
            call[c] = "pending" /\ call'[c] = "resolved"
              => circuitBreaker'.state = "CLOSED"
                 /\ circuitBreaker'.failureCount = 0
       /\ \A c \in Calls :
            circuitBreaker.state = "CLOSED" /\ CallStep(c)
              => call'[c] = "pending"]_vars

\* the breaker opened, refused call a, let call b through after the cooldown,
\* closed on b's success and let call c through
C5_Restored ==
    \E a, b, c \in Calls :
        /\ a < b /\ b < c
        /\ \A x \in 1..(a - 1) : call[x] = "rejected"
        /\ call[a] = "refused"
        /\ call[b] = "resolved"
        /\ call[c] \in {"pending", "resolved"}
        /\ circuitBreaker.state = "CLOSED"
        /\ circuitBreaker.failureCount = 0

\* C16: the breaker enters OPEN only in a step that leaves failureCount at or
\* above the threshold; it goes from OPEN to HALF_OPEN only in a step that is
\* a call made when more than the cooldown has passed since lastFailureTime;
\* a call made on an OPEN breaker exactly at the cooldown is rejected and
\* leaves the breaker OPEN.
C16_TransitionGuards ==
    [][/\ circuitBreaker.state # "OPEN" /\ circuitBreaker'.state = "OPEN"
            => circuitBreaker'.failureCount >= FailureThreshold
       /\ circuitBreaker.state = "OPEN" /\ circuitBreaker'.state = "HALF_OPEN"
            => /\ \E c \in Calls : CallStep(c)
               /\ now - circuitBreaker.lastFailureTime > BreakerTimeout
       /\ \A c \in Calls :
            /\ circuitBreaker.state = "OPEN"
            /\ now - circuitBreaker.lastFailureTime = BreakerTimeout
            /\ CallStep(c)
            => call'[c] = "refused" /\ circuitBreaker'.state = "OPEN"
      ]_vars

\* the breaker opened at the threshold, refused a call, and a later call,
\* made after more than the cooldown, is in flight as the probe
C16_ProbeAdmitted ==
    /\ circuitBreaker.state = "HALF_OPEN"
    /\ circuitBreaker.failureCount = FailureThreshold
    /\ now - circuitBreaker.lastFailureTime > BreakerTimeout
    /\ \E c \in Calls : call[c] = "refused"
    /\ rateLimiter.running # NoTask

\* C17: when an upstream call fails while the breaker is HALF_OPEN the
\* breaker is OPEN afterwards with lastFailureTime the time of that failure;
\* and a call made on an OPEN breaker within the cooldown from lastFailureTime
\* is rejected without reaching the limiter and changes nothing in the breaker.
C17_ProbeFailureReopens ==
    [][/\ /\ circuitBreaker.state = "HALF_OPEN"
          /\ \E c \in Calls : call[c] = "pending" /\ call'[c] = "rejected"
          => /\ circuitBreaker'.state = "OPEN"
             /\ circuitBreaker'.lastFailureTime = now
       /\ \A c \in Calls :
            circuitBreaker.state = "OPEN" /\ CoolingDown /\ CallStep(c)
            => /\ call'[c] = "refused"
               /\ rateLimiter' = rateLimiter
               /\ circuitBreaker' = circuitBreaker
      ]_vars

\* five calls failed, the sixth was rejected by the open breaker, a later call
\* went through as the probe and failed, and a call after that was rejected
\* again within the cooldown counted from the probe's failure
C17_ReopenedAndRefused ==
    \E b, c \in Calls :
        /\ FailureThreshold + 1 < b /\ b < c
        /\ \A x \in 1..FailureThreshold : call[x] = "rejected"
        /\ call[FailureThreshold + 1] = "refused"
        /\ \A x \in Calls : call[x] # "resolved"
        /\ call[b] = "rejected"
        /\ call[c] = "refused"
        /\ circuitBreaker.state = "OPEN"
        /\ circuitBreaker.failureCount = FailureThreshold + 1
        /\ circuitBreaker.lastFailureTime > BreakerTimeout
        /\ CoolingDown

\* C33: in every state of the breaker failureCount is not negative; CLOSED
\* implies failureCount below the threshold; OPEN and HALF_OPEN imply
\* failureCount at or above the threshold and a lastFailureTime that is set.
C33_BreakerConsistent ==
    /\ circuitBreaker.state \in {"CLOSED", "OPEN", "HALF_OPEN"}
    /\ circuitBreaker.failureCount >= 0
    /\ circuitBreaker.state = "CLOSED" =>
          circuitBreaker.failureCount < FailureThreshold
    /\ circuitBreaker.state \in {"OPEN", "HALF_OPEN"} =>
          /\ circuitBreaker.failureCount >= FailureThreshold
          /\ circuitBreaker.lastFailureTime # Null

\* a call let through before the breaker opened failed after it had opened,
\* and the probe after the cooldown finds the count above the threshold
C33_HalfOpenAboveThreshold ==
    /\ circuitBreaker.state = "HALF_OPEN"
    /\ circuitBreaker.failureCount = FailureThreshold + 1
    /\ circuitBreaker.lastFailureTime = 0
    /\ rateLimiter.running # NoTask

\* the calls the breaker has rejected
RefusedCalls == {c \in Calls : call[c] = "refused"}

\* C34: a call is rejected by the breaker only in state OPEN, and the
\* rejection leaves the breaker as it was (state, failureCount and
\* lastFailureTime: it is no failure and the cooldown still runs from the last
\* failure) and the rate limiter as it was (nothing queued, no timestamp in
\* the window, no call started).
C34_RejectionChangesNothing ==
    [][\A c \in Calls :
          CallStep(c) /\ call'[c] = "refused" =>
             /\ circuitBreaker.state = "OPEN"
             /\ circuitBreaker'.state = circuitBreaker.state
             /\ circuitBreaker'.failureCount = circuitBreaker.failureCount
             /\ circuitBreaker'.lastFailureTime = circuitBreaker.lastFailureTime
             /\ rateLimiter'.queue = rateLimiter.queue
             /\ rateLimiter'.requests = rateLimiter.requests
             /\ rateLimiter' = rateLimiter
             /\ consecFails' = consecFails
      ]_vars

\* FailureThreshold calls failed at time 0 and every later call was rejected;
\* at the end of the cooldown the breaker still holds the count and the time
\* of the fifth failure and the window holds the five timestamps only
C34_RefusedWithinCooldown ==
    /\ Cardinality(RefusedCalls) = MaxCalls - FailureThreshold
    /\ Cardinality(RefusedCalls) >= 2
    /\ now = BreakerTimeout
    /\ circuitBreaker =
          [state |-> "OPEN", failureCount |-> FailureThreshold, lastFailureTime |-> 0]
    /\ Len(rateLimiter.requests) = FailureThreshold
    /\ rateLimiter.queue = <<>>

\* C35: the completion of a call updates the breaker also when the breaker
\* has opened since the call was let through: a call that succeeds while the
\* state is OPEN leaves the state CLOSED with failureCount = 0, whether or not
\* the cooldown has elapsed, and a call that fails while the state is OPEN
\* leaves it OPEN with one failure more and lastFailureTime the time of that
\* failure.
C35_LateCompletionCounts ==
    [][\A c \in Calls :
          /\ /\ circuitBreaker.state = "OPEN"
             /\ call[c] = "pending" /\ call'[c] = "resolved"
             => /\ circuitBreaker'.state = "CLOSED"
                /\ circuitBreaker'.failureCount = 0
          /\ /\ circuitBreaker.state = "OPEN"
             /\ call[c] = "pending" /\ call'[c] = "rejected"
             => /\ circuitBreaker'.state = "OPEN"
                /\ circuitBreaker'.failureCount = circuitBreaker.failureCount + 1
                /\ circuitBreaker'.lastFailureTime = now
      ]_vars

\* at time 0 FailureThreshold calls failed and a call was rejected by the open
\* breaker, then a call let through earlier succeeded: the breaker is CLOSED
\* with no failure counted while the cooldown has not begun to run down
C35_ClosedDuringCooldown ==
    /\ now = 0
    /\ Cardinality({c \in Calls : call[c] = "rejected"}) = FailureThreshold
    /\ RefusedCalls # {}
    /\ \E c \in Calls : call[c] = "resolved"
    /\ circuitBreaker =
          [state |-> "CLOSED", failureCount |-> 0, lastFailureTime |-> 0]

\* C36: a call made while the breaker is HALF_OPEN is passed to the wrapped
\* function, the rate limiter's makeRequest, and leaves the breaker as it is;
\* the breaker does not hold back the calls that arrive while the probe is
\* in flight.
C36_HalfOpenAdmitsAll ==
    [][\A c \in Calls :
          circuitBreaker.state = "HALF_OPEN" /\ CallStep(c) =>
             /\ call'[c] = "pending"
             /\ circuitBreaker' = circuitBreaker
             /\ \/ rateLimiter'.running = c
                \/ InQueue(rateLimiter'.queue, c)
      ]_vars

\* the breaker opened and rejected call a; after the cooldown call b went
\* through as the probe, and call c, made before b completed, waits behind it
\* in the limiter
C36_SecondCallBehindProbe ==
    \E a, b, c \in Calls :
        /\ a < b /\ b < c
        /\ \A x \in 1..(a - 1) : call[x] = "rejected"
        /\ call[a] = "refused"
        /\ call[b] = "pending" /\ call[c] = "pending"
        /\ rateLimiter.running = b
        /\ InQueue(rateLimiter.queue, c)
        /\ circuitBreaker.state = "HALF_OPEN"

\* ------------------------------------------- the CacheManager on its own
SetOp(k, v, ttl) ==
    /\ cache' = CacheSet(cache, k, v, ttl, now)
    /\ cacheOp' = <<"set", k>>
    /\ written' = [written EXCEPT ![k] = <<[value |-> v, at |-> now, ttl |-> ttl]>>]
    /\ UNCHANGED <<now, got>>

GetOp(k) ==
    LET r == CacheGet(cache, k, now)
    IN  /\ cache' = r.cache
        /\ got' = [value |-> r.value,
                   evicted |-> k \in DOMAIN cache /\ k \notin DOMAIN r.cache]
        /\ cacheOp' = <<"get", k>>
        /\ UNCHANGED <<now, written>>

ClearOp ==
    /\ cache' = CacheClear(cache)
    /\ cacheOp' = <<"clear">>
    /\ written' = [k \in Keys |-> <<>>]
    /\ UNCHANGED <<now, got>>

\* The clock moves half a default TTL on.
CacheTick ==
    /\ now + DefaultTTL \div 2 <= MaxCacheTime
    /\ now' = now + DefaultTTL \div 2
    /\ cacheOp' = <<"tick">>
    /\ UNCHANGED <<cache, got, written>>

CacheNext ==
    \/ \E k \in Keys, v \in Values, ttl \in {DefaultTTL, CountryTTL} :
          SetOp(k, v, ttl) /\ UNCHANGED <<limVars, clientVars, mergeVars, aggVars, serverVars>>
    \/ \E k \in Keys : GetOp(k) /\ UNCHANGED <<limVars, clientVars, mergeVars, aggVars, serverVars>>
    \/ ClearOp /\ UNCHANGED <<limVars, clientVars, mergeVars, aggVars, serverVars>>
    \/ CacheTick /\ UNCHANGED <<limVars, clientVars, mergeVars, aggVars, serverVars>>

SpecCache == Init /\ [][CacheNext]_vars

\* C6: in the state a get(k) leaves, k is absent or unexpired (an entry whose
\* expiry had passed was removed by that get), and a value was returned only
\* for an entry that is present, unexpired and holds that value.
C6_NoExpiredRead ==
    \A k \in Keys :
        cacheOp = <<"get", k>> =>
            /\ k \in DOMAIN cache => cache[k].expiry > now
            /\ got.value # <<>> =>
                 /\ k \in DOMAIN cache
                 /\ cache[k].expiry > now
                 /\ got.value = <<cache[k].data>>

\* a get found an entry at the very time of its expiry, returned null and
\* removed it, and left the other key's entry in the map
C6_Evicted ==
    \E k \in Keys :
        /\ cacheOp = <<"get", k>>
        /\ got.evicted
        /\ got.value = <<>>
        /\ now = DefaultTTL
        /\ CacheSize(cache) = 1

\* C18: a get(k) returns the value of the last set(k, v, ttl) made since the
\* last clear() when it is called before the time of that set plus ttl, and
\* null when it is called at or after that time or when there was no such set.
C18_SetThenGet ==
    \A k \in Keys :
        cacheOp = <<"get", k>> =>
            IF written[k] # <<>> /\ now < written[k][1].at + written[k][1].ttl
            THEN got.value = <<written[k][1].value>>
            ELSE got.value = <<>>

\* a value set for ten minutes was returned by a get half a default TTL
\* before its expiry, after the default TTL had passed
C18_ReadBeforeExpiry ==
    \E k \in Keys :
        /\ cacheOp = <<"get", k>>
        /\ written[k] # <<>>
        /\ written[k][1].ttl = CountryTTL
        /\ now = written[k][1].at + CountryTTL - DefaultTTL \div 2
        /\ got.value = <<written[k][1].value>>

\* C19: an entry is removed or replaced only by a get or a set on its key or
\* by clear(), so an expired entry stays in the map, counted by size(), while
\* the clock moves and other keys are used; a get on a key whose entry has
\* expired leaves size() one lower; clear() leaves size() = 0.
C19_LazyExpiry ==
    [][\A k \in Keys :
          /\ /\ k \in DOMAIN cache
             /\ k \notin DOMAIN cache' \/ cache'[k] # cache[k]
             => cacheOp' \in {<<"get", k>>, <<"set", k>>, <<"clear">>}
          /\ /\ cacheOp' = <<"get", k>>
             /\ k \in DOMAIN cache
             /\ cache[k].expiry <= now
             => CacheSize(cache') = CacheSize(cache) - 1
          /\ cacheOp' = <<"clear">> => CacheSize(cache') = 0
      ]_vars

\* two entries had expired; a get on one key removed that entry only, and the
\* other, expired for longer than half a default TTL, is still counted
C19_ExpiredStillCounted ==
    \E k, other \in Keys :
        /\ k # other
        /\ cacheOp = <<"get", k>>
        /\ got.evicted
        /\ other \in DOMAIN cache
        /\ cache[other].expiry + DefaultTTL \div 2 <= now
        /\ CacheSize(cache) = 1

\* ----------------------------------------------- mergeResults on its own
\* the k-th article of a long NewsAPI response, published d ms after 1970
Numbered(k, d) ==
    Obj([url |-> Str(<<NumberedUrl(k)>>), publishedAt |-> Num(d),
         title |-> Str(<<"talks">>)])

\* a NewsAPI response of n articles with distinct urls, oldest first
LongResponse(n) ==
    Obj([status |-> Str(<<"ok">>),
         articles |-> Arr([k \in 1..n |-> Numbered(k, k)])])

\* the same with the newest article being a later copy of the oldest one
LongResponseWithCopy(n) ==
    Obj([status |-> Str(<<"ok">>),
         articles |-> Arr([k \in 1..n |->
                             IF k = n THEN Numbered(1, n) ELSE Numbered(k, k)])])

\* results arrays with about MaxMerged articles
LongInputs ==
    {<<Success("newsapi", LongResponse(n))>> :
        n \in {MaxMerged, MaxMerged + Surplus}}
    \cup {<<Success("newsapi", LongResponseWithCopy(MaxMerged + 1))>>}

\* array.reverse()
Reverse(items) == [i \in 1..Len(items) |-> items[Len(items) + 1 - i]]

\* mergeResults is a function of the array it is handed: the arrays the
\* aggregator builds, and the same with the providers in the opposite order
MergeArguments ==
    MergeInputs \cup {Reverse(results) : results \in MergeInputs} \cup LongInputs

MergeInit ==
    /\ CoreInit
    /\ mergeIn \in MergeArguments
    /\ keyIn = <<>>
    /\ paramsIn = <<>>
    /\ config = AllKeys

\* mergeResults(results) is called
Merge ==
    /\ mergeOut = <<>>
    /\ mergeOut' = <<MergeResults(mergeIn, DefaultMaxArticlesPerSource, now)>>
    /\ UNCHANGED <<now, mergeIn, keyIn, keyOut>>

MergeNext == Merge /\ UNCHANGED <<limVars, clientVars, cacheVars, aggVars, serverVars>>

SpecMerge == MergeInit /\ [][MergeNext]_vars

\* the array of raw articles in a provider's response, by the provider's shape
ShapeArticles(r) ==
    CASE r.source = "newsapi" -> r.data.fields.articles.items
      [] r.source = "mediastack" -> r.data.fields.data.items
      [] r.source = "gdelt" -> r.data.items

\* the list of merged articles holds one with the url of raw article a
MergedIn(articles, a) ==
    \E i \in 1..Len(articles) : articles[i].url = Prop(a, "url")

Merged(a) == MergedIn(mergeOut[1].v.articles, a)

WellFormed(a) ==
    /\ a.kind = "object"
    /\ \A f \in DOMAIN a.fields : a.fields[f].kind \in {"string", "object"}

\* C9: when mergeResults returns, every article in the array of a successful
\* provider's response (NewsAPI: articles, MediaStack: data, GDELT: the array
\* itself) that has a valid url is in the merged list under that url.
C9_EveryProviderMerged ==
    mergeOut # <<>> /\ ~mergeOut[1].threw =>
        \A i \in 1..Len(mergeIn) :
            mergeIn[i].success =>
                \A j \in 1..Len(ShapeArticles(mergeIn[i])) :
                    LET a == ShapeArticles(mergeIn[i])[j]
                    IN  WellFormed(a) /\ IsValidUrl(Prop(a, "url")) => Merged(a)

\* C10: mergeResults does not throw on a malformed article: it returns, and
\* the well-formed articles with a valid url of the NewsAPI and GDELT responses
\* are in the merged list.
C10_MalformedSkipped ==
    mergeOut # <<>> =>
        /\ ~mergeOut[1].threw
        /\ \A i \in 1..Len(mergeIn) :
             mergeIn[i].success /\ mergeIn[i].source # "mediastack" =>
                \A j \in 1..Len(ShapeArticles(mergeIn[i])) :
                    LET a == ShapeArticles(mergeIn[i])[j]
                    IN  WellFormed(a) /\ IsValidUrl(Prop(a, "url")) => Merged(a)

\* ------------------------------------ mergeResults: the list it returns
\* mergeResults returned (it did not throw)
Returned == mergeOut # <<>> /\ ~mergeOut[1].threw

\* the article list mergeResults returned
Articles == mergeOut[1].v.articles

\* the places of the url of raw article a in the returned list
EntriesOf(a) == {k \in 1..Len(Articles) : Articles[k].url = Prop(a, "url")}

\* the raw articles of the i-th result, none for a failed provider
RawOf(i) == IF mergeIn[i].success THEN ShapeArticles(mergeIn[i]) ELSE <<>>

\* C11: in the list mergeResults returns every article has a url that is a
\* non-empty string, no two articles have equal urls (urls that differ in
\* case are different), and a valid url that occurs in the responses of two
\* providers has exactly one entry, in either order of the two providers.
C11_Deduplicated ==
    Returned =>
        /\ \A k \in 1..Len(Articles) :
              Articles[k].url.kind = "string" /\ Articles[k].url.s # <<>>
        /\ \A k, l \in 1..Len(Articles) :
              Articles[k].url = Articles[l].url => k = l
        /\ \A i, j \in 1..Len(mergeIn) :
              i # j =>
                 \A x \in 1..Len(RawOf(i)), y \in 1..Len(RawOf(j)) :
                     /\ Prop(RawOf(i)[x], "url") = Prop(RawOf(j)[y], "url")
                     /\ IsValidUrl(Prop(RawOf(i)[x], "url"))
                     => Cardinality(EntriesOf(RawOf(i)[x])) = 1

\* GDELT was handed in before NewsAPI, both hold http://a/1, and the list
\* returned has one entry for it, GDELT's copy, next to NewsAPI's other article
C11_SharedUrlOnce ==
    /\ Returned
    /\ Len(mergeIn) = 2
    /\ mergeIn[1] = Success("gdelt", Arr(<<G1, G2>>))
    /\ mergeIn[2].success /\ ShapeArticles(mergeIn[2]) = <<N1, N2>>
    /\ Cardinality(EntriesOf(G2)) = 1
    /\ \E k \in EntriesOf(G2) : Articles[k].source.api = "gdelt"
    /\ Len(Articles) = 3

\* C12: the list mergeResults returns is non-increasing by publishedAt.
C12_NewestFirst ==
    Returned =>
        \A k \in 1..(Len(Articles) - 1) :
            Articles[k].publishedAt >= Articles[k + 1].publishedAt

\* NewsAPI's articles of 3 and 1 January and GDELT's of 2 January, handed in
\* in that order, come out with GDELT's between NewsAPI's two
C12_Reordered ==
    /\ Returned
    /\ Len(mergeIn) = 2
    /\ mergeIn[1].success /\ ShapeArticles(mergeIn[1]) = <<N1, N2>>
    /\ mergeIn[2] = Success("gdelt", Arr(<<G1, G2>>))
    /\ Len(Articles) = 3
    /\ Articles[1].url = Prop(N1, "url")
    /\ Articles[2].url = Prop(G1, "url")
    /\ Articles[3].url = Prop(N2, "url")
    /\ Articles[1].publishedAt > Articles[2].publishedAt
    /\ Articles[2].publishedAt > Articles[3].publishedAt

\* the raw articles of the i-th result that mergeResults reads: those of a
\* successful NewsAPI or GDELT response
ReadOf(i) == IF mergeIn[i].source = "mediastack" THEN <<>> ELSE RawOf(i)

\* C13: the list mergeResults returns has at most MaxMerged articles, and an
\* article with a valid url is left out only when the list is full and holds
\* no article older than the one left out.
C13_LatestKept ==
    Returned =>
        /\ Len(Articles) <= MaxMerged
        /\ \A i \in 1..Len(mergeIn) : \A x \in 1..Len(ReadOf(i)) :
              LET a == ReadOf(i)[x] IN
              IsValidUrl(Prop(a, "url")) /\ EntriesOf(a) = {} =>
                 /\ Len(Articles) = MaxMerged
                 /\ \A k \in 1..Len(Articles) :
                       Articles[k].publishedAt >=
                          NormalizeDate(Or(Prop(a, "publishedAt"),
                                           Prop(a, "published_at")), now)

\* of MaxMerged + Surplus articles handed in oldest first, the Surplus oldest
\* were left out and the newest is first
C13_OldestDropped ==
    /\ Returned
    /\ mergeIn = <<Success("newsapi", LongResponse(MaxMerged + Surplus))>>
    /\ Surplus > 0
    /\ Len(Articles) = MaxMerged
    /\ Articles[1].url = Str(<<NumberedUrl(MaxMerged + Surplus)>>)
    /\ Articles[MaxMerged].url = Str(<<NumberedUrl(Surplus + 1)>>)
    /\ EntriesOf(Numbered(1, 1)) = {}

\* the number of articles of provider c in the returned list
FromProvider(c) ==
    Cardinality({k \in 1..Len(Articles) : Articles[k].source.api = c})

\* C30: whatever number of articles a response holds, the list mergeResults
\* returns has at most maxArticlesPerSource articles of any one provider,
\* and at most 100 of NewsAPI and of MediaStack.
C30_PerSourceCapped ==
    Returned =>
        \A c \in ClientSet :
            /\ FromProvider(c) <= DefaultMaxArticlesPerSource
            /\ c \in {"newsapi", "mediastack"} => FromProvider(c) <= 100

\* the places in the results array of the providers that succeeded, and of
\* those that failed
SucceededAt == {i \in 1..Len(mergeIn) : mergeIn[i].success}
FailedAt == {i \in 1..Len(mergeIn) : ~mergeIn[i].success}

\* C14: in the result mergeResults returns, sources holds exactly the
\* providers that succeeded, each once; errors holds exactly one entry per
\* provider that failed, with its message; no provider is in both;
\* successfulSources is the length of sources and totalSources is the number
\* of results handed in, the sum of the two lengths.
C14_Accounting ==
    Returned =>
        LET v == mergeOut[1].v IN
        /\ Len(v.sources) = Cardinality(SucceededAt)
        /\ {v.sources[k] : k \in 1..Len(v.sources)}
              = {mergeIn[i].source : i \in SucceededAt}
        /\ Len(v.errors) = Cardinality(FailedAt)
        /\ {v.errors[k] : k \in 1..Len(v.errors)}
              = {[source |-> mergeIn[i].source, error |-> mergeIn[i].error] :
                    i \in FailedAt}
        /\ {v.errors[k].source : k \in 1..Len(v.errors)}
              \cap {v.sources[k] : k \in 1..Len(v.sources)} = {}
        /\ v.metadata.successfulSources = Len(v.sources)
        /\ v.metadata.totalSources = Len(mergeIn)
        /\ v.metadata.totalSources = Len(v.sources) + Len(v.errors)

\* all three providers failed and mergeResults returned three errors, no
\* source and no article
C14_AllFailed ==
    /\ Returned
    /\ Len(mergeIn) = 3
    /\ SucceededAt = {}
    /\ Len(mergeOut[1].v.errors) = 3
    /\ mergeOut[1].v.sources = <<>>
    /\ mergeOut[1].v.articles = <<>>
    /\ mergeOut[1].v.metadata.totalSources = 3
    /\ mergeOut[1].v.metadata.successfulSources = 0

\* ------------------------------------------------ generateKey on its own
ParamNames == {ParamOrder[i] : i \in 1..Len(ParamOrder)}
ParamValues == {"en", "fr"}

NamesOf(params) == {params[i][1] : i \in 1..Len(params)}
PairsOf(params) == {params[i] : i \in 1..Len(params)}

\* the params objects of up to MaxParams properties, in every insertion order
ParamObjects ==
    {params \in UNION {[1..n -> ParamNames \X ParamValues] : n \in 0..MaxParams} :
        Cardinality(NamesOf(params)) = Len(params)}

\* two params objects with the same property names
KeyInit ==
    /\ CoreInit
    /\ mergeIn = <<>>
    /\ paramsIn = <<>>
    /\ config = AllKeys
    /\ keyIn \in {pair \in ParamObjects \X ParamObjects :
                     NamesOf(pair[1]) = NamesOf(pair[2])}

\* generateKey('aggregated', 'news', params) is called for each of the two
KeyOp ==
    /\ keyOut = <<>>
    /\ keyOut' = <<GenerateKey("aggregated", "news", keyIn[1]),
                   GenerateKey("aggregated", "news", keyIn[2])>>
    /\ UNCHANGED <<now, mergeIn, mergeOut, keyIn>>

KeyNext == KeyOp /\ UNCHANGED <<limVars, clientVars, cacheVars, aggVars, serverVars>>

SpecKey == KeyInit /\ [][KeyNext]_vars

\* C20: generateKey returns the same key for two params objects that hold the
\* same name/value pairs, in whatever order the properties were inserted.
C20_OrderIrrelevant ==
    keyOut # <<>> /\ PairsOf(keyIn[1]) = PairsOf(keyIn[2]) =>
        keyOut[1] = keyOut[2]

\* three parameters given in two different orders got one key
C20_SameKeyOtherOrder ==
    /\ keyOut # <<>>
    /\ Len(keyIn[1]) = 3
    /\ keyIn[1] # keyIn[2]
    /\ PairsOf(keyIn[1]) = PairsOf(keyIn[2])
    /\ keyIn[1][1] = keyIn[2][3]
    /\ keyOut[1] = keyOut[2]

\* ------------------------------------------------- the NewsAggregator
\* new NewsAggregator(config) for each combination of credentials
AggInit ==
    /\ CoreInit
    /\ mergeIn = <<>>
    /\ keyIn = <<>>
    /\ paramsIn = <<>>
    /\ config \in [newsApiKey : BOOLEAN, mediaStackKey : BOOLEAN]

NextRequest == Cardinality({r \in Requests : req[r].state # "none"}) + 1

\* NewsApiDispatch with the breaker's check after rateLimiter.makeRequest: a
\* refused call is queued all the same
NewsApiDispatchQueuesRefused(r, blank) ==
    IF blank
    THEN [breaker |-> circuitBreaker, limiter |-> rateLimiter,
          result |-> Failure("newsapi", Str(<<"Query parameter is required">>))]
    ELSE LET adm == BreakerAdmit(circuitBreaker, now) IN
         [breaker |-> adm.breaker,
          limiter |-> LimiterMakeRequest(rateLimiter, NewsApiPerMinute, r, now),
          result |-> IF adm.pass THEN NoResult
                     ELSE Failure("newsapi", Str(<<"Circuit breaker is OPEN">>))]

\* searchArticles or getTopHeadlines of NewsAPIClient for request r, up to its
\* first await.  result is NoResult while the promise is pending.
NewsApiDispatch(r, blank) ==
    IF blank
    THEN [breaker |-> circuitBreaker, limiter |-> rateLimiter,
          result |-> Failure("newsapi", Str(<<"Query parameter is required">>))]
    ELSE LET adm == BreakerAdmit(circuitBreaker, now) IN
         IF adm.pass
         THEN [breaker |-> adm.breaker,
               limiter |-> LimiterMakeRequest(rateLimiter, NewsApiPerMinute, r, now),
               result |-> NoResult]
         ELSE [breaker |-> adm.breaker, limiter |-> rateLimiter,
               result |-> Failure("newsapi", Str(<<"Circuit breaker is OPEN">>))]

\* the number of HTTP calls the step from limiter l to l2 started for request r
StartedFor(l, l2, r) == IF Started(l, l2) /\ l2.running = r THEN 1 ELSE 0

\* The body aggregateNews and getNewsByCountry share, up to the await of
\* Promise.allSettled: the cache lookup and, on a miss, one call on every
\* configured client.  The cached value is an object, so if (cached) holds
\* exactly when get did not return null.
Begin(r, op, key, blank) ==
    LET g == CacheGet(cache, key, now)
        useN == IsConfigured(config, "newsapi")
        useM == IsConfigured(config, "mediastack")
        n == NewsApiDispatch(r, blank)
        lg == LimiterMakeRequest(gdeltLimiter, GdeltPerMinute, r, now)
        lm == LimiterMakeRequest(mediaStackLimiter, MediaStackPerMinute, r, now)
    IN  /\ r \in Requests
        /\ cache' = g.cache
        /\ IF g.value # <<>>
           THEN /\ req' = [req EXCEPT ![r] =
                            [NoRequest EXCEPT !.state = "returned", !.op = op,
                                              !.key = key, !.hit = TRUE,
                                              !.value = g.value]]
                /\ UNCHANGED <<circuitBreaker, rateLimiter, gdeltLimiter,
                               mediaStackLimiter>>
           ELSE /\ circuitBreaker' = IF useN THEN n.breaker ELSE circuitBreaker
                /\ rateLimiter' = IF useN THEN n.limiter ELSE rateLimiter
                /\ gdeltLimiter' = lg
                /\ mediaStackLimiter' = IF useM THEN lm ELSE mediaStackLimiter
                /\ req' = [req EXCEPT ![r] =
                            [NoRequest EXCEPT
                               !.state = "waiting", !.op = op, !.key = key,
                               !.pending =
                                  {c \in ClientSet :
                                      /\ IsConfigured(config, c)
                                      /\ c = "newsapi" => n.result = NoResult},
                               !.results =
                                  [c \in ClientSet |->
                                      IF c = "newsapi" /\ useN
                                      THEN n.result ELSE NoResult],
                               !.http =
                                  [c \in ClientSet |->
                                      CASE c = "newsapi" ->
                                             IF useN
                                             THEN StartedFor(rateLimiter, n.limiter, r)
                                             ELSE 0
                                        [] c = "gdelt" ->
                                             StartedFor(gdeltLimiter, lg, r)
                                        [] c = "mediastack" ->
                                             IF useM
                                             THEN StartedFor(mediaStackLimiter, lm, r)
                                             ELSE 0]]]
        /\ UNCHANGED now

\* line 140: generateKey('aggregated', 'news', { query, ...options })
AggregatedKey(query, options) ==
    GenerateKey("aggregated", "news", Spread(<<<<"query", query>>>>, options))

\* line 196: generateKey('country', 'news', { country, ...options })
CountryKey(country, options) ==
    GenerateKey("country", "news", Spread(<<<<"country", country>>>>, options))

\* aggregateNews(query, options), lines 139-187
AggregateNews(r, query, options) ==
    Begin(r, "aggregated", AggregatedKey(query, options), query \in BlankStrings)

\* getNewsByCountry(country, options), lines 195-233
GetNewsByCountry(r, country, options) ==
    Begin(r, "country", CountryKey(country, options), FALSE)

LimiterOf(c) ==
    CASE c = "newsapi" -> rateLimiter
      [] c = "gdelt" -> gdeltLimiter
      [] c = "mediastack" -> mediaStackLimiter

\* StoreResult writing only a result in which no provider failed
StoreResultUnlessFailed(m, key, aggregated, op, t) ==
    IF aggregated.errors = <<>>
    THEN CacheSet(m, key, aggregated, TtlOf(op), t)
    ELSE m

\* lines 191 and 237: this.cache.set(cacheKey, aggregated, ttl)
StoreResult(m, key, aggregated, op, t) ==
    CacheSet(m, key, aggregated, TtlOf(op), t)

\* The HTTP call in flight on client c settles with outcome.  In one turn: the
\* limiter settles the promise and starts its next queued call, the breaker
\* of NewsAPIClient notes the outcome, the then or catch of the aggregator
\* makes the result object and, when it was the last one awaited,
\* Promise.allSettled resolves, mergeResults runs and the result is cached.
UpstreamSettles(c, outcome) ==
    LET l == LimiterOf(c)
        r == l.running
        idle == [l EXCEPT !.running = NoTask]
        l2 == LimiterTaskSettled(l, RateOf(c), now)
        q == [req[r] EXCEPT !.results[c] = outcome, !.pending = @ \ {c},
                            !.http[c] = @ + StartedFor(idle, l2, r)]
        done == q.pending = {}
        merged == MergeResults(ResultsArray(config, q),
                               DefaultMaxArticlesPerSource, now)
    IN  /\ r # NoTask
        /\ rateLimiter' = IF c = "newsapi" THEN l2 ELSE rateLimiter
        /\ gdeltLimiter' = IF c = "gdelt" THEN l2 ELSE gdeltLimiter
        /\ mediaStackLimiter' = IF c = "mediastack" THEN l2 ELSE mediaStackLimiter
        /\ circuitBreaker' = IF c = "newsapi"
                             THEN BreakerSettled(circuitBreaker, outcome.success, now)
                             ELSE circuitBreaker
        /\ cache' = IF done /\ ~merged.threw
                    THEN StoreResult(cache, q.key, merged.v, q.op, now)
                    ELSE cache
        /\ req' = [x \in Requests |->
                     IF x = r
                     THEN IF ~done THEN q
                          ELSE IF merged.threw THEN [q EXCEPT !.state = "threw"]
                          ELSE [q EXCEPT !.state = "returned", !.value = <<merged.v>>]
                     ELSE [req[x] EXCEPT !.http[c] = @ + StartedFor(idle, l2, x)]]
        /\ UNCHANGED now

\* POST /api/cache/clear
ClearCache ==
    /\ cache # EmptyCache
    /\ cache' = CacheClear(cache)
    /\ UNCHANGED <<now, circuitBreaker, rateLimiter, gdeltLimiter,
                   mediaStackLimiter, req>>

\* The clock moves half a default TTL on.  An upstream call settles within
\* its axios timeout of 10000 or 15000 ms, so none is in flight across the step.
AggTick ==
    /\ \A r \in Requests : req[r].pending = {}
    /\ now + DefaultTTL \div 2 <= MaxCacheTime
    /\ now' = now + DefaultTTL \div 2
    /\ UNCHANGED <<cache, circuitBreaker, rateLimiter, gdeltLimiter,
                   mediaStackLimiter, req>>

\* the calls made of the aggregator: GET /api/news/search passes language and
\* timespan, GET /api/news/country/:country passes timespan; a direct caller
\* may pass a blank query and no options
NewsCalls ==
    {[query |-> "syria",
      options |-> <<<<"language", "en">>, <<"timespan", "3d">>>>],
     [query |-> "", options |-> <<>>]}
CountryCalls == {[country |-> "us", options |-> <<<<"timespan", "1d">>>>]}

\* what an upstream call of client c can settle with
Outcomes(c) ==
    CASE c = "newsapi" ->
            {Success(c, Obj([status |-> Str(<<"ok">>), articles |-> Arr(<<N1, N2>>)]))}
      [] c = "gdelt" ->
            {Success(c, Arr(<<G1, G2>>)), Success(c, Arr(<<G1, JsNull>>))}
      [] c = "mediastack" ->
            {Success(c, Obj([data |-> Arr(<<M1, M2>>)]))}

Timeouts(c) == {Failure(c, m) : m \in ErrorMessages}

\* the variables the aggregator leaves alone
aggFrame == <<lim, promise, issued, starts, call, consecFails, openStarts,
              cacheOp, got, written, mergeIn, mergeOut, keyIn, keyOut, config,
              res, completed, settlement, paramsIn, paramsOut>>

Next ==
    \/ \E a \in NewsCalls :
          AggregateNews(NextRequest, a.query, a.options) /\ UNCHANGED aggFrame
    \/ \E a \in CountryCalls :
          GetNewsByCountry(NextRequest, a.country, a.options) /\ UNCHANGED aggFrame
    \/ \E c \in ClientSet : \E outcome \in Outcomes(c) \cup Timeouts(c) :
          UpstreamSettles(c, outcome) /\ UNCHANGED aggFrame
    \/ ClearCache /\ UNCHANGED aggFrame
    \/ AggTick /\ UNCHANGED aggFrame

Spec == AggInit /\ [][Next]_vars

\* the step is the r-th call of aggregateNews or getNewsByCountry
Starts(r) == req[r].state = "none" /\ req'[r].state # "none"

\* the cache holds an unexpired entry under key k
Unexpired(k) == k \in DOMAIN cache /\ cache[k].expiry > now

\* no HTTP call was started for request q on any client
NoHttp(q) == \A c \in ClientSet : q.http[c] = 0

\* C7: a call of aggregateNews or getNewsByCountry that finds an unexpired
\* entry under its key returns that entry and reaches no client (no limiter, no
\* breaker, no HTTP call), and a returned call makes no call later; when a call
\* that missed returns, the cache holds under its key the result it returns,
\* unexpired, so the size is at least 1.
C7_HitServesCache ==
    [][\A r \in Requests :
          /\ Starts(r) /\ Unexpired(req'[r].key) =>
                /\ req'[r].state = "returned"
                /\ req'[r].value = <<cache[req'[r].key].data>>
                /\ NoHttp(req'[r])
                /\ req'[r].pending = {}
                /\ UNCHANGED <<rateLimiter, gdeltLimiter, mediaStackLimiter,
                               circuitBreaker>>
          /\ req[r].state = "returned" => req'[r] = req[r]
          /\ req[r].state = "waiting" /\ req'[r].state = "returned" =>
                /\ req[r].key \in DOMAIN cache'
                /\ CacheSize(cache') >= 1
                /\ <<cache'[req[r].key].data>> = req'[r].value
                /\ cache'[req[r].key].expiry > now'
      ]_vars

\* a call missed, called every configured client and returned; a later
\* identical call returned the same result without any HTTP call
C7_HitAfterMiss ==
    \E a, b \in Requests :
        /\ a < b
        /\ req[a].state = "returned" /\ ~req[a].hit
        /\ \A c \in ClientSet : IsConfigured(config, c) => req[a].http[c] = 1
        /\ req[b].state = "returned" /\ req[b].hit
        /\ req[b].key = req[a].key
        /\ req[b].value = req[a].value
        /\ NoHttp(req[b])

\* the configured clients whose call for request q failed, and those whose
\* call succeeded
FailedOf(q) == {c \in ClientSet : q.results[c].source = c /\ ~q.results[c].success}
SucceededOf(q) == {c \in ClientSet : q.results[c].source = c /\ q.results[c].success}

\* every article of every successful response of request q is well-formed
AllWellFormed(q) ==
    \A c \in SucceededOf(q) :
        \A j \in 1..Len(ShapeArticles(q.results[c])) :
            WellFormed(ShapeArticles(q.results[c])[j])

\* C8: a call that missed, on which some configured client failed and the
\* others answered with well-formed articles, returns a result; its errors
\* name every failed source, and every article with a valid url of every
\* successful source is in its articles.
C8_FailureIsolated ==
    \A r \in Requests :
        LET q == req[r] IN
        /\ q.state \in {"returned", "threw"}
        /\ ~q.hit
        /\ FailedOf(q) # {}
        /\ AllWellFormed(q)
        => /\ q.state = "returned"
           /\ \A c \in FailedOf(q) :
                 \E i \in 1..Len(q.value[1].errors) :
                     q.value[1].errors[i].source = c
           /\ \A c \in SucceededOf(q) :
                 \A j \in 1..Len(ShapeArticles(q.results[c])) :
                     LET a == ShapeArticles(q.results[c])[j]
                     IN  IsValidUrl(Prop(a, "url")) =>
                            MergedIn(q.value[1].articles, a)

\* C21: when a call that missed returns, its result is cached under its key
\* until 5 minutes later for aggregateNews and 10 minutes later for
\* getNewsByCountry; a call that finds an entry under its key is served from
\* the cache without any upstream call while that time has not elapsed, and
\* once it has elapsed it misses and calls every configured client again
\* (the HTTP call to GDELT starting at once when its limiter is idle).
C21_TtlByOperation ==
    [][\A r \in Requests :
          /\ req[r].state = "waiting" /\ req'[r].state = "returned" =>
                cache'[req[r].key].expiry =
                    now + (IF req[r].op = "aggregated" THEN 5 * 60 * 1000
                                                       ELSE 10 * 60 * 1000)
          /\ Starts(r) /\ req'[r].key \in DOMAIN cache =>
                IF now < cache[req'[r].key].expiry
                THEN /\ req'[r].state = "returned"
                     /\ req'[r].hit
                     /\ NoHttp(req'[r])
                ELSE /\ req'[r].state = "waiting"
                     /\ ~req'[r].hit
                     /\ "gdelt" \in req'[r].pending
                     /\ gdeltLimiter.running = NoTask => req'[r].http["gdelt"] = 1
                     /\ \A c \in ClientSet :
                           IsConfigured(config, c) =>
                              \/ c \in req'[r].pending
                              \/ req'[r].results[c].source = c
      ]_vars

\* getNewsByCountry missed and returned; the identical call made exactly 10
\* minutes after that result was built missed as well and called GDELT again
C21_RefetchedAfterTenMinutes ==
    \E a, b \in Requests :
        /\ a < b
        /\ req[a].op = "country" /\ req[b].op = "country"
        /\ req[a].state = "returned" /\ ~req[a].hit
        /\ req[b].state = "returned" /\ ~req[b].hit
        /\ req[b].key = req[a].key
        /\ req[a].http["gdelt"] = 1 /\ req[b].http["gdelt"] = 1
        /\ req[b].value[1].metadata.timestamp =
              req[a].value[1].metadata.timestamp + 10 * 60 * 1000

\* C25: for every call of aggregateNews or getNewsByCountry, each client
\* makes at most one HTTP call: none on a cache hit, none on a client that is
\* not configured, and exactly one on every configured client whose call has
\* settled with an upstream response or an upstream error, whether the
\* request succeeded or failed.
C25_SingleAttempt ==
    \A r \in Requests : \A c \in ClientSet :
        LET q == req[r] IN
        /\ q.http[c] <= 1
        /\ q.hit \/ ~IsConfigured(config, c) => q.http[c] = 0
        /\ q.results[c] \in Outcomes(c) \cup Timeouts(c) => q.http[c] = 1

\* a call whose request to one client failed and whose request to another
\* succeeded has returned with one HTTP call made to each of them
C25_FailedOnceSucceededOnce ==
    \E r \in Requests :
        /\ req[r].state = "returned"
        /\ \E c \in FailedOf(req[r]) :
              req[r].results[c] \in Timeouts(c) /\ req[r].http[c] = 1
        /\ \E c \in SucceededOf(req[r]) : req[r].http[c] = 1

\* the clients request q was dispatched to
DispatchedTo(q) == {c \in ClientSet : c \in q.pending \/ q.results[c].source = c}

\* the clients the credentials supplied call for
Expected ==
    {"gdelt"} \cup (IF config.newsApiKey THEN {"newsapi"} ELSE {})
              \cup (IF config.mediaStackKey THEN {"mediastack"} ELSE {})

\* C26: GDELT is always a client, NewsAPI and MediaStack are clients exactly
\* when their key was supplied; a call that misses the cache is dispatched to
\* exactly these clients, HTTP calls go to these only, and its result counts
\* these as totalSources and names no other client in sources or errors.
C26_ExactlyConfigured ==
    /\ {c \in ClientSet : IsConfigured(config, c)} = Expected
    /\ \A r \in Requests :
          LET q == req[r] IN
          /\ q.state # "none" /\ ~q.hit => DispatchedTo(q) = Expected
          /\ \A c \in ClientSet \ Expected : q.http[c] = 0
          /\ q.state = "returned" /\ ~q.hit =>
                /\ q.value[1].metadata.totalSources = Cardinality(Expected)
                /\ \A k \in 1..Len(q.value[1].errors) :
                      q.value[1].errors[k].source \in Expected
                /\ \A k \in 1..Len(q.value[1].sources) :
                      q.value[1].sources[k] \in Expected
                /\ Len(q.value[1].errors) + Len(q.value[1].sources)
                      = Cardinality(Expected)

\* without a NewsAPI key and with a MediaStack key a call returned from
\* GDELT and MediaStack with no error at all
C26_DisabledSilently ==
    /\ ~config.newsApiKey /\ config.mediaStackKey
    /\ \E r \in Requests :
          /\ req[r].state = "returned" /\ ~req[r].hit
          /\ req[r].value[1].errors = <<>>
          /\ req[r].value[1].sources = <<"gdelt", "mediastack">>
          /\ req[r].value[1].metadata.totalSources = 2
          /\ req[r].http = [c \in ClientSet |-> IF c = "newsapi" THEN 0 ELSE 1]

\* --------------------------------- the aggregator on a three-provider case
\* One provider answers with three articles, one of them with the url of an
\* article of another provider, one answers with two articles and one times
\* out.  The articles as provider c sends them: MediaStack names the date
\* published_at.
ProviderArticle(c, url, date) ==
    IF c = "mediastack"
    THEN Obj([url |-> Str(<<url>>), published_at |-> Str(<<date>>),
              title |-> Str(<<"talks">>)])
    ELSE Obj([url |-> Str(<<url>>), publishedAt |-> Str(<<date>>),
              title |-> Str(<<"talks">>)])

ThreeArticles(c) ==
    <<ProviderArticle(c, "http://a/1", "2024-01-03"),
      ProviderArticle(c, "http://a/2", "2024-01-02"),
      ProviderArticle(c, "http://b/3", "2024-01-01")>>

TwoArticles(c) ==
    <<ProviderArticle(c, "http://b/3", "2024-01-01"),
      ProviderArticle(c, "HTTP://A/1", "2024-01-02")>>

\* response.data of provider c holding these articles
Shaped(c, items) ==
    CASE c = "newsapi" -> Obj([status |-> Str(<<"ok">>), articles |-> Arr(items)])
      [] c = "gdelt" -> Arr(items)
      [] c = "mediastack" -> Obj([data |-> Arr(items)])

CaseOutcomes(c) ==
    {Success(c, Shaped(c, ThreeArticles(c))), Success(c, Shaped(c, TwoArticles(c)))}

CaseNext ==
    \/ AggregateNews(NextRequest, "syria",
                     <<<<"language", "en">>, <<"timespan", "3d">>>>)
          /\ UNCHANGED aggFrame
    \/ \E c \in ClientSet : \E outcome \in CaseOutcomes(c) \cup Timeouts(c) :
          UpstreamSettles(c, outcome) /\ UNCHANGED aggFrame

SpecCase == Init /\ [][CaseNext]_vars

\* the clients that answered request q with the three articles, with the two
TripleOf(q) ==
    {c \in ClientSet : q.results[c] = Success(c, Shaped(c, ThreeArticles(c)))}
PairOf(q) ==
    {c \in ClientSet : q.results[c] = Success(c, Shaped(c, TwoArticles(c)))}

\* C15: whichever provider sends the three articles, whichever the two and
\* whichever times out, aggregateNews returns 4 articles, the two successful
\* providers as sources, 1 error and successfulSources = 2.
C15_FourOfFive ==
    \A r \in Requests :
        LET q == req[r] IN
        /\ q.state \in {"returned", "threw"}
        /\ ~q.hit
        /\ Cardinality(TripleOf(q)) = 1
        /\ Cardinality(PairOf(q)) = 1
        /\ Cardinality(FailedOf(q)) = 1
        => /\ q.state = "returned"
           /\ Len(q.value[1].articles) = 4
           /\ Len(q.value[1].sources) = 2
           /\ {q.value[1].sources[k] : k \in 1..2} = TripleOf(q) \cup PairOf(q)
           /\ Len(q.value[1].errors) = 1
           /\ q.value[1].metadata.successfulSources = 2

\* ------------------------------------------------------ the Express routes
\* characters String.prototype.trim removes, as far as the requests below use them
Whitespace == {" ", "\t", "\n"}

\* s.trimStart() and s.trimEnd()
RECURSIVE TrimStart(_)
TrimStart(s) ==
    IF Len(s) > 0 /\ SubSeq(s, 1, 1) \in Whitespace
    THEN TrimStart(SubSeq(s, 2, Len(s)))
    ELSE s

RECURSIVE TrimEnd(_)
TrimEnd(s) ==
    IF Len(s) > 0 /\ SubSeq(s, Len(s), Len(s)) \in Whitespace
    THEN TrimEnd(SubSeq(s, 1, Len(s) - 1))
    ELSE s

\* s.trim()
Trim(s) == TrimEnd(TrimStart(s))

\* server.js:96  q.length > 500
MaxQueryLength == 500
\* server.js:123  country.length !== 2
CountryCodeLength == 2

\* a value of req.query or req.params: NoValue when the parameter is absent
Absent(v) == v = NoValue \/ v = ""

\* v || d
OrDefault(v, d) == IF Absent(v) THEN d ELSE v

\* SearchRejects without q.trim()
SearchRejectsUntrimmed(q) ==
    \/ Absent(q)
    \/ Len(q) > MaxQueryLength

\* the two tests of GET /api/news/search that answer 400, lines 90 and 96
SearchRejects(q) ==
    \/ Absent(q)
    \/ Len(Trim(q)) = 0
    \/ Len(q) > MaxQueryLength

\* the test of GET /api/news/country/:country that answers 400, line 123
CountryRejects(country) ==
    \/ Absent(country)
    \/ Len(country) # CountryCodeLength

\* the route answered 400 before calling the aggregator
Rejected(route, arg) == [route |-> route, arg |-> arg, status |-> 400, call |-> 0]

\* The route awaits call r of the aggregator: the status is 0 until it
\* answers, 200 with the result once the call returned, 500 from the catch
\* block once it threw.
Awaiting(route, arg, r, q) ==
    [route |-> route, arg |-> arg, call |-> r,
     status |-> CASE q.state = "returned" -> 200
                  [] q.state = "threw" -> 500
                  [] OTHER -> 0]

\* what the handlers the routes leave alone when they answer 400
routeFrame == <<now, cache, circuitBreaker, rateLimiter, gdeltLimiter,
                mediaStackLimiter, req>>

\* GET /api/news/search?q=..&language=..&timespan=.., up to its await
SearchRoute(q, language, timespan) ==
    IF SearchRejects(q)
    THEN /\ res' = Append(res, Rejected("search", q))
         /\ UNCHANGED routeFrame
    ELSE /\ AggregateNews(NextRequest, q,
                          <<<<"language", OrDefault(language, "en")>>,
                            <<"timespan", OrDefault(timespan, "3d")>>>>)
         /\ res' = Append(res, Awaiting("search", q, NextRequest, req'[NextRequest]))

\* GET /api/news/country/:country?timespan=.., up to its await
CountryRoute(country, timespan) ==
    IF CountryRejects(country)
    THEN /\ res' = Append(res, Rejected("country", country))
         /\ UNCHANGED routeFrame
    ELSE /\ GetNewsByCountry(NextRequest, country,
                             <<<<"timespan", OrDefault(timespan, "1d")>>>>)
         /\ res' = Append(res, Awaiting("country", country, NextRequest,
                                        req'[NextRequest]))

\* an upstream call settles; the routes whose aggregator call ends with it answer
RouteSettles(c, outcome) ==
    /\ UpstreamSettles(c, outcome)
    /\ res' = [i \in 1..Len(res) |->
                 IF res[i].status = 0
                 THEN Awaiting(res[i].route, res[i].arg, res[i].call,
                               req'[res[i].call])
                 ELSE res[i]]

\* HTTP requests received by the routes in one run
MaxResponses == 3

\* strings of 10, 100, 500 and 501 characters
Chars10 == "aaaaaaaaaa"
Chars100 ==
    Chars10 \o Chars10 \o Chars10 \o Chars10 \o Chars10
        \o Chars10 \o Chars10 \o Chars10 \o Chars10 \o Chars10
Chars500 == Chars100 \o Chars100 \o Chars100 \o Chars100 \o Chars100
Chars501 == Chars500 \o "a"

\* values of q and of :country the routes are called with
SearchQueries == {NoValue, "", "  ", " \t", Chars501, Chars500, "syria"}
CountryCodes == {"us", "usa", "u", "12"}

\* the variables the routes leave alone
serverFrame == <<lim, promise, issued, starts, call, consecFails, openStarts,
                 cacheOp, got, written, mergeIn, mergeOut, keyIn, keyOut, config,
                 completed, settlement, paramsIn, paramsOut>>

ServerNext ==
    \/ /\ Len(res) < MaxResponses
       /\ \E q \in SearchQueries :
             SearchRoute(q, NoValue, NoValue) /\ UNCHANGED serverFrame
    \/ /\ Len(res) < MaxResponses
       /\ \E country \in CountryCodes :
             CountryRoute(country, NoValue) /\ UNCHANGED serverFrame
    \/ \E c \in ClientSet : \E outcome \in Outcomes(c) \cup Timeouts(c) :
          RouteSettles(c, outcome) /\ UNCHANGED serverFrame
    \/ now < DefaultTTL /\ AggTick /\ UNCHANGED <<serverFrame, res>>

\* the server started with no NEWS_API_KEY and no MEDIASTACK_API_KEY in its
\* environment, server.js lines 21-25
ServerInit ==
    /\ CoreInit
    /\ mergeIn = <<>>
    /\ keyIn = <<>>
    /\ paramsIn = <<>>
    /\ config = [newsApiKey |-> FALSE, mediaStackKey |-> FALSE]

SpecServer == ServerInit /\ [][ServerNext]_vars

\* the step is the arrival of an HTTP request at route
Arrives(route) == Len(res') = Len(res) + 1 /\ res'[Len(res')].route = route

\* q is missing, empty, made of white space only or longer than 500 characters
BadQuery(q) ==
    \/ q = NoValue
    \/ q = ""
    \/ \A i \in 1..Len(q) : SubSeq(q, i, i) \in {" ", "\t", "\n"}
    \/ Len(q) > 500

\* C22: GET /api/news/search with q missing, empty, white space only or
\* longer than 500 characters is answered 400 at once and leaves the
\* aggregator alone: the cache (no lookup evicts, nothing is written), the
\* limiters and the breaker (no upstream call) and the calls of the
\* aggregator are unchanged, and no such request is ever tied to a call of
\* the aggregator.
C22_BadQueryRejected ==
    [][/\ Arrives("search") /\ BadQuery(res'[Len(res')].arg) =>
             /\ res'[Len(res')].status = 400
             /\ res'[Len(res')].call = 0
             /\ UNCHANGED <<cache, req, circuitBreaker, rateLimiter,
                            gdeltLimiter, mediaStackLimiter>>
       /\ \A i \in 1..Len(res) :
             res[i].route = "search" /\ BadQuery(res[i].arg) => res'[i] = res[i]
      ]_vars

\* a search was answered 200 and cached, and later a query of 501 characters
\* and a query of white space were each answered 400 with the entry of the
\* first still in the cache
C22_RejectedBesideCache ==
    /\ Len(res) = 3
    /\ res[1].route = "search" /\ res[1].status = 200
    /\ res[2] = Rejected("search", Chars501)
    /\ res[3] = Rejected("search", " \t")
    /\ req[res[1].call].key \in DOMAIN cache
    /\ req[2].state = "none"

\* the character is a letter
Letters ==
    {"a", "b", "c", "d", "e", "f", "g", "h", "i", "j", "k", "l", "m",
     "n", "o", "p", "q", "r", "s", "t", "u", "v", "w", "x", "y", "z",
     "A", "B", "C", "D", "E", "F", "G", "H", "I", "J", "K", "L", "M",
     "N", "O", "P", "Q", "R", "S", "T", "U", "V", "W", "X", "Y", "Z"}

\* country is exactly 2 letters
TwoLetters(country) ==
    /\ country # NoValue
    /\ Len(country) = 2
    /\ \A i \in 1..2 : SubSeq(country, i, i) \in Letters

\* C23: GET /api/news/country/:country is answered 400, with no call of the
\* aggregator and no upstream call, whenever country is not exactly 2
\* letters; a code of exactly 2 letters reaches the aggregator.
C23_CountryCodeChecked ==
    [][Arrives("country") =>
          IF TwoLetters(res'[Len(res')].arg)
          THEN /\ res'[Len(res')].call # 0
               /\ res'[Len(res')].status # 400
          ELSE /\ res'[Len(res')].status = 400
               /\ res'[Len(res')].call = 0
               /\ UNCHANGED <<cache, req, circuitBreaker, rateLimiter,
                              gdeltLimiter, mediaStackLimiter>>
      ]_vars

\* ------------------------------------- the aggregator with the breaker open
\* the breaker after n failed calls at time 0
RECURSIVE AfterFailures(_)
AfterFailures(n) ==
    IF n = 0 THEN NewBreaker ELSE OnFailure(AfterFailures(n - 1), 0)

\* An aggregator with both credentials whose NewsAPI calls have failed
\* FailureThreshold - 1 times in a row: the next failure opens the breaker.
OpenInit ==
    /\ now = 0
    /\ LimiterInit
    /\ circuitBreaker = AfterFailures(FailureThreshold - 1)
    /\ rateLimiter = NewLimiter
    /\ call = [c \in Calls |-> "none"]
    /\ consecFails = FailureThreshold - 1
    /\ openStarts = 0
    /\ CacheInit
    /\ AggregatorInit
    /\ mergeIn = <<>> /\ mergeOut = <<>>
    /\ keyIn = <<>> /\ keyOut = <<>>
    /\ res = <<>> /\ completed = <<>>
    /\ paramsIn = <<>> /\ paramsOut = <<>>
    /\ config = AllKeys

OpenNext ==
    \/ AggregateNews(NextRequest, "syria",
                     <<<<"language", "en">>, <<"timespan", "3d">>>>)
          /\ UNCHANGED aggFrame
    \/ \E a \in CountryCalls :
          GetNewsByCountry(NextRequest, a.country, a.options) /\ UNCHANGED aggFrame
    \/ \E c \in ClientSet : \E outcome \in Outcomes(c) \cup Timeouts(c) :
          UpstreamSettles(c, outcome) /\ UNCHANGED aggFrame
    \/ now < DefaultTTL /\ AggTick /\ UNCHANGED aggFrame

SpecOpen == OpenInit /\ [][OpenNext]_vars

\* the breaker refused the NewsAPI call of request q
Refused(q) ==
    /\ q.state # "none"
    /\ ~q.hit
    /\ q.results["newsapi"].source = "newsapi"
    /\ ~q.results["newsapi"].success
    /\ q.results["newsapi"].error = Str(<<"Circuit breaker is OPEN">>)

\* C24: a request whose NewsAPI call the open breaker refused makes no HTTP
\* call to NewsAPI at any time, while GDELT and MediaStack are each called
\* once, as soon as their limiter reaches the call; when the others have settled (with well-formed articles where they
\* succeeded) the request returns a result that counts three sources, has
\* an errors entry for newsapi carrying the rejection, lists every other
\* client that succeeded as a source and every other one that failed in
\* errors, and holds the GDELT articles that have a valid url.
C24_OpenHandledAsError ==
    \A r \in Requests :
        LET q == req[r] IN
        Refused(q) =>
           /\ q.http["newsapi"] = 0
           /\ "newsapi" \notin q.pending
           /\ \A c \in {"gdelt", "mediastack"} :
                 /\ q.http[c] <= 1
                 /\ c \notin q.pending => q.http[c] = 1
           /\ q.pending = {} /\ AllWellFormed(q) =>
                 /\ q.state = "returned"
                 /\ q.value[1].metadata.totalSources = 3
                 /\ q.value[1].metadata.successfulSources =
                       Cardinality(SucceededOf(q))
                 /\ {q.value[1].sources[k] : k \in 1..Len(q.value[1].sources)}
                       = SucceededOf(q)
                 /\ {q.value[1].errors[k] : k \in 1..Len(q.value[1].errors)}
                       = {[source |-> c, error |-> q.results[c].error] :
                             c \in FailedOf(q)}
                 /\ "newsapi" \in FailedOf(q)
                 /\ "gdelt" \in SucceededOf(q) =>
                       \A j \in 1..Len(ShapeArticles(q.results["gdelt"])) :
                           LET a == ShapeArticles(q.results["gdelt"])[j]
                           IN  IsValidUrl(Prop(a, "url")) =>
                                  MergedIn(q.value[1].articles, a)

\* a NewsAPI failure opened the breaker; the next request was refused by it
\* and returned the articles of GDELT with newsapi among its errors
C24_RefusedAndReturned ==
    \E a, b \in Requests :
        /\ a < b
        /\ req[a].results["newsapi"] \in Timeouts("newsapi")
        /\ Refused(req[b])
        /\ req[b].state = "returned"
        /\ req[b].value[1].sources = <<"gdelt", "mediastack">>
        /\ Len(req[b].value[1].articles) >= 2
        /\ req[b].http = [c \in ClientSet |-> IF c = "newsapi" THEN 0 ELSE 1]
        /\ circuitBreaker.state = "OPEN"

\* ------------------------------------- the clients' parameter validation
\* A params object is the sequence of its <<name, value>> properties in
\* insertion order, the values being JavaScript values.

\* news-clients.js:161  filtered.pageSize > 100
MaxPageSize == 100
\* news-clients.js:162  filtered.pageSize = 20
NewsApiDefaultPageSize == 20
\* news-clients.js:281  filtered.limit = 25
MediaStackDefaultLimit == 25
\* news-clients.js:208  maxrecords: 250
GdeltMaxRecords == 250

HeadlinesAllowed == {"country", "category", "sources", "q", "pageSize", "page"}
SearchAllowed ==
    {"q", "sources", "domains", "from", "to", "language", "sortBy", "pageSize", "page"}
NewsAllowed ==
    {"keywords", "countries", "categories", "languages", "sources", "sort",
     "limit", "offset"}

\* obj[name], undefined when obj has no such property
Get(obj, name) ==
    IF \E i \in 1..Len(obj) : obj[i][1] = name
    THEN obj[CHOOSE i \in 1..Len(obj) : obj[i][1] = name][2]
    ELSE Undefined

\* delete obj[name]
Delete(obj, name) == SelectSeq(obj, LAMBDA p : p[1] # name)

\* the loop over Object.entries(params): the allowed properties that are not
\* undefined, in the order of params
FilterAllowed(params, allowed) ==
    SelectSeq(params, LAMBDA p : p[1] \in allowed /\ p[2] # Undefined)

\* the decimal strings in use, as ToNumber reads them
DecimalOf(token) ==
    CASE token = "0" -> <<0>>
      [] token = "7" -> <<7>>
      [] token = "500" -> <<500>>
      [] OTHER -> <<>>

\* ToNumber(v): <<n>>, or <<>> for NaN
ToNumber(v) ==
    CASE v.kind = "number" -> <<v.n>>
      [] v.kind = "null" -> <<0>>
      [] v.kind = "string" ->
            IF v.s = <<>> THEN <<0>>
            ELSE IF Len(v.s) = 1 THEN DecimalOf(v.s[1]) ELSE <<>>
      [] OTHER -> <<>>

\* v < n and v > n for a number n: false when v converts to NaN
Less(v, n) == ToNumber(v) # <<>> /\ ToNumber(v)[1] < n
Greater(v, n) == ToNumber(v) # <<>> /\ ToNumber(v)[1] > n

\* if (filtered[name] && (filtered[name] < 1 || filtered[name] > 100))
\*     filtered[name] = fallback
ClampSize(filtered, name, fallback) ==
    IF /\ Truthy(Get(filtered, name))
       /\ Less(Get(filtered, name), 1) \/ Greater(Get(filtered, name), MaxPageSize)
    THEN Assign(filtered, name, Num(fallback))
    ELSE filtered

LowercaseLetters ==
    {"a", "b", "c", "d", "e", "f", "g", "h", "i", "j", "k", "l", "m",
     "n", "o", "p", "q", "r", "s", "t", "u", "v", "w", "x", "y", "z"}

\* /^[a-z]{2}$/.test(v) for a string v of one token
IsLanguageCode(v) ==
    /\ v.kind = "string"
    /\ Len(v.s) = 1
    /\ Len(v.s[1]) = 2
    /\ \A i \in 1..2 : SubSeq(v.s[1], i, i) \in LowercaseLetters

\* lines 179-181
DropBadLanguage(filtered) ==
    IF Truthy(Get(filtered, "language")) /\ ~IsLanguageCode(Get(filtered, "language"))
    THEN Delete(filtered, "language")
    ELSE filtered

\* NewsAPIClient.validateHeadlinesParams
ValidateHeadlinesParams(params) ==
    ClampSize(FilterAllowed(params, HeadlinesAllowed), "pageSize",
              NewsApiDefaultPageSize)

\* NewsAPIClient.validateSearchParams
ValidateSearchParams(params) ==
    ClampSize(DropBadLanguage(FilterAllowed(params, SearchAllowed)), "pageSize",
              NewsApiDefaultPageSize)

\* MediaStackClient.validateNewsParams
ValidateNewsParams(params) ==
    ClampSize(FilterAllowed(params, NewsAllowed), "limit", MediaStackDefaultLimit)

\* config.params of GDELTClient.searchEvents(query, params)
SearchEventsParams(query, params) ==
    Spread(<<<<"query", query>>, <<"mode", Str(<<"artlist">>)>>,
             <<"format", Str(<<"json">>)>>, <<"maxrecords", Num(GdeltMaxRecords)>>,
             <<"sort", Str(<<"DateDesc">>)>>>>,
           params)

\* what the four endpoints hand to axios.get as params for the caller's
\* params: getTopHeadlines(params), searchArticles('syria', params),
\* getNews(params) and searchEvents('syria', params)
AxiosParams(params) ==
    [headlines |->
        Spread(<<<<"apiKey", Str(<<"key">>)>>>>, ValidateHeadlinesParams(params)),
     search |->
        Spread(<<<<"apiKey", Str(<<"key">>)>>>>,
               ValidateSearchParams(Spread(<<<<"q", Str(<<"syria">>)>>>>, params))),
     news |->
        Spread(<<<<"access_key", Str(<<"key">>)>>>>, ValidateNewsParams(params)),
     events |-> SearchEventsParams(Str(<<"syria">>), params)]

\* the values a caller passes as pageSize, limit or maxrecords
Sizes ==
    {Num(-5), Num(0), Num(1), Num(50), Num(100), Num(101), Num(500),
     Str(<<"0">>), Str(<<"7">>), Str(<<"500">>), Str(<<"many">>), Undefined}

\* the properties a caller passes
Properties ==
    ({"pageSize", "limit", "maxrecords"} \X Sizes)
    \cup ({"language"} \X {Str(<<"en">>), Str(<<"EN">>), Str(<<"eng">>)})
    \cup ({"country"} \X {Str(<<"us">>)})
    \cup ({"apiKey", "access_key", "format", "callback"} \X {Str(<<"other">>)})

\* params objects of one or two properties
ParamsObjects ==
    {<<a>> : a \in Properties}
    \cup {<<pair[1], pair[2]>> :
             pair \in {x \in Properties \X Properties : x[1][1] # x[2][1]}}

ParamsInit ==
    /\ CoreInit
    /\ mergeIn = <<>>
    /\ keyIn = <<>>
    /\ config = AllKeys
    /\ paramsIn \in ParamsObjects

\* the four endpoints are called with the params
Validate ==
    /\ paramsOut = <<>>
    /\ paramsOut' = <<AxiosParams(paramsIn)>>
    /\ UNCHANGED <<now, res, completed, paramsIn>>

ParamsNext ==
    Validate /\ UNCHANGED <<limVars, clientVars, cacheVars, mergeVars, aggVars>>

SpecParams == ParamsInit /\ [][ParamsNext]_vars

\* the names of the properties of obj
Names(obj) == {obj[i][1] : i \in 1..Len(obj)}

\* property name of the caller, a number, went into sent as it should: as
\* given when it is within 1..100, as the fallback otherwise
Clamped(sent, name, fallback) ==
    LET v == Get(paramsIn, name) IN
    v.kind = "number" =>
        Get(sent, name) = IF v.n >= 1 /\ v.n <= 100 THEN v ELSE Num(fallback)

\* C27: whatever options the caller supplies, no error is raised, the params
\* each endpoint sends hold the client's credential or defaults and, of the
\* caller's fields, only those on the endpoint's list (for searchEvents: the
\* two it documents, maxrecords and timespan), and a numeric pageSize or
\* limit outside 1..100, 0 and negative numbers included, is sent as 20 by
\* NewsAPI and as 25 by MediaStack.
C27_OptionsValidated ==
    paramsOut # <<>> =>
       LET sent == paramsOut[1] IN
       /\ Names(sent.headlines) \subseteq {"apiKey"} \cup HeadlinesAllowed
       /\ Names(sent.search) \subseteq {"apiKey"} \cup SearchAllowed
       /\ Names(sent.news) \subseteq {"access_key"} \cup NewsAllowed
       /\ Get(sent.headlines, "apiKey") = Str(<<"key">>)
       /\ Get(sent.search, "apiKey") = Str(<<"key">>)
       /\ Get(sent.news, "access_key") = Str(<<"key">>)
       /\ Clamped(sent.headlines, "pageSize", 20)
       /\ Clamped(sent.search, "pageSize", 20)
       /\ Clamped(sent.news, "limit", 25)
       /\ \A name \in Names(paramsIn) \ {"maxrecords", "timespan"} :
             Get(sent.events, name) =
                Get(SearchEventsParams(Str(<<"syria">>), <<>>), name)

\* ------------------------------ the aggregator and the order of completion
\* an upstream call settles, and the order is noted
OrderedSettles(c, outcome) ==
    /\ UpstreamSettles(c, outcome)
    /\ completed' = Append(completed, <<LimiterOf(c).running, c>>)

\* the variables the aggregator leaves alone, but for the order of completion
orderFrame == <<lim, promise, issued, starts, settlement, call, consecFails,
                openStarts, cacheOp, got, written, mergeIn, mergeOut, keyIn,
                keyOut, config, res, paramsIn, paramsOut>>

\* what an upstream call of client c settles with: GDELT answers with the two
\* articles, the others with the three, or the call times out
OrderOutcomes(c) ==
    {Success(c, Shaped(c, IF c = "gdelt" THEN TwoArticles(c) ELSE ThreeArticles(c)))}
        \cup Timeouts(c)

\* aggregateNews('syria') is called twice, the upstream calls settling in any
\* order
OrderNext ==
    \/ AggregateNews(NextRequest, "syria",
                     <<<<"language", "en">>, <<"timespan", "3d">>>>)
          /\ UNCHANGED aggFrame
    \/ \E c \in ClientSet : \E outcome \in OrderOutcomes(c) :
          OrderedSettles(c, outcome) /\ UNCHANGED orderFrame

SpecOrder == Init /\ [][OrderNext]_vars

\* the clients in the order in which their calls for request r settled
OrderOf(r) ==
    LET mine == SelectSeq(completed, LAMBDA p : p[1] = r)
    IN  [i \in 1..Len(mine) |-> mine[i][2]]

\* C29: two calls of aggregateNews for the same request that missed the
\* cache and got the same response or error from each client return the
\* same result (articles in the same order, sources, errors, counts),
\* whatever the order in which their upstream calls settled.
C29_CompletionOrderIrrelevant ==
    \A a, b \in Requests :
        /\ req[a].state = "returned" /\ ~req[a].hit
        /\ req[b].state = "returned" /\ ~req[b].hit
        /\ req[a].key = req[b].key
        /\ req[a].results = req[b].results
        => req[a].value = req[b].value

\* two calls got the same responses, two of them successful with articles of
\* different dates, in different orders of completion, and returned the same
\* result
C29_SameResultOtherOrder ==
    \E a, b \in Requests :
        /\ a # b
        /\ req[a].state = "returned" /\ ~req[a].hit
        /\ req[b].state = "returned" /\ ~req[b].hit
        /\ req[a].results = req[b].results
        /\ OrderOf(a) # OrderOf(b)
        /\ OrderOf(a)[1] = "mediastack" /\ OrderOf(b)[1] = "newsapi"
        /\ Len(req[a].value[1].sources) = 3
        /\ Len(req[a].value[1].articles) >= 3
        /\ req[a].value = req[b].value

\* ------------------------------------ the aggregator and concurrent misses
\* news-clients.js:122  timeout: 10000
AxiosTimeout == 10000

\* The clock moves half an axios timeout on, calls in flight or not, for as
\* long as a call made at time 0 can be in flight.
RaceTick ==
    /\ now + AxiosTimeout \div 2 <= AxiosTimeout
    /\ now' = now + AxiosTimeout \div 2
    /\ UNCHANGED <<cache, circuitBreaker, rateLimiter, gdeltLimiter,
                   mediaStackLimiter, req>>

\* aggregateNews('syria') and getNewsByCountry('us') are called while earlier
\* calls are in flight or after they returned
RaceNext ==
    \/ AggregateNews(NextRequest, "syria",
                     <<<<"language", "en">>, <<"timespan", "3d">>>>)
          /\ UNCHANGED aggFrame
    \/ \E a \in CountryCalls :
          GetNewsByCountry(NextRequest, a.country, a.options) /\ UNCHANGED aggFrame
    \/ \E c \in ClientSet : \E outcome \in OrderOutcomes(c) :
          UpstreamSettles(c, outcome) /\ UNCHANGED aggFrame
    \/ RaceTick /\ UNCHANGED aggFrame

SpecRace == Init /\ [][RaceNext]_vars

\* the step is the return of call r, which had missed
Returns(r) == req[r].state = "waiting" /\ req'[r].state = "returned"

\* a call for the key of request q is waiting for its upstream calls
InProgress(key) ==
    \E a \in Requests : req[a].state = "waiting" /\ req[a].key = key

\* C37: a call that starts while another call for the same key is waiting
\* and no unexpired entry is in the cache misses too and is dispatched to
\* every configured client, the waiting call being left as it is; every call
\* that missed makes its own HTTP call on each client; and each call that
\* returns writes its own result under the key with an expiry counted from
\* its own return, whatever entry was there.
C37_MissesNotCoalesced ==
    /\ [][\A r \in Requests :
            /\ Starts(r) /\ InProgress(req'[r].key) /\ ~Unexpired(req'[r].key) =>
                  /\ req'[r].state = "waiting"
                  /\ ~req'[r].hit
                  /\ req'[r].pending = Expected
                  /\ \A a \in Requests \ {r} : req'[a] = req[a]
            /\ Returns(r) =>
                  cache'[req[r].key] =
                     [data |-> req'[r].value[1],
                      expiry |-> now + (IF req[r].op = "aggregated"
                                        THEN 5 * 60 * 1000 ELSE 10 * 60 * 1000)]
         ]_vars
    /\ [](\A r \in Requests : \A c \in Expected :
            /\ req[r].http[c] <= 1
            /\ req[r].state = "returned" /\ ~req[r].hit => req[r].http[c] = 1)

\* two calls of aggregateNews for one key both missed, each made one HTTP call
\* on every client, the first returned three errors at time 0 and the second
\* three sources later: the cache holds the result of the second with the
\* expiry counted from the second return
C37_SecondWriteReplaced ==
    \E a, b \in Requests :
        /\ a # b
        /\ req[a].key = req[b].key
        /\ req[a].state = "returned" /\ ~req[a].hit
        /\ req[b].state = "returned" /\ ~req[b].hit
        /\ \A c \in ClientSet : req[a].http[c] = 1 /\ req[b].http[c] = 1
        /\ Len(req[a].value[1].errors) = 3
        /\ Len(req[b].value[1].sources) = 3
        /\ req[a].value[1].metadata.timestamp = 0
        /\ req[b].value[1].metadata.timestamp = AxiosTimeout
        /\ cache[req[a].key] =
              [data |-> req[b].value[1], expiry |-> AxiosTimeout + DefaultTTL]

\* C38: a call that missed and returns writes the result it returns to the
\* cache, with the errors of the providers that failed, also when every
\* provider failed; and a call served from the cache makes no upstream call
\* and returns, errors and articles alike, the result of a call for the same
\* key that missed, whatever the providers would answer now.
C38_FailuresCached ==
    /\ [][\A r \in Requests :
            Returns(r) =>
               /\ req[r].key \in DOMAIN cache'
               /\ cache'[req[r].key].data = req'[r].value[1]
               /\ cache'[req[r].key].expiry > now
               /\ {req'[r].value[1].errors[k].source :
                      k \in 1..Len(req'[r].value[1].errors)} = FailedOf(req'[r])
         ]_vars
    /\ [](\A b \in Requests :
            req[b].hit =>
               /\ NoHttp(req[b])
               /\ req[b].pending = {}
               /\ \E a \in Requests \ {b} :
                     /\ req[a].state = "returned" /\ ~req[a].hit
                     /\ req[a].key = req[b].key
                     /\ req[b].value = req[a].value)

\* every provider failed for a call of getNewsByCountry; the same call made
\* later got the three errors and no article from the cache with no HTTP call
C38_AllFailedServedAgain ==
    \E a, b \in Requests :
        /\ a < b
        /\ req[a].op = "country"
        /\ req[a].state = "returned" /\ ~req[a].hit
        /\ FailedOf(req[a]) = ClientSet
        /\ req[b].state = "returned" /\ req[b].hit
        /\ req[b].key = req[a].key
        /\ req[b].value = req[a].value
        /\ Len(req[b].value[1].errors) = 3
        /\ req[b].value[1].articles = <<>>
        /\ NoHttp(req[b])
        /\ now > req[a].value[1].metadata.timestamp

\* ------------------------------------------ the cache keys of the two calls
\* JsonEscape escaping nothing
RECURSIVE JsonEscapeNothing(_)
JsonEscapeNothing(s) == s

\* the characters of s as JSON.stringify writes them inside a string: a
\* double quote and a backslash get a backslash in front
RECURSIVE JsonEscape(_)
JsonEscape(s) ==
    IF Len(s) = 0 THEN ""
    ELSE LET ch == SubSeq(s, 1, 1)
         IN  (IF ch = "\"" THEN "\\\""
              ELSE IF ch = "\\" THEN "\\\\"
              ELSE ch) \o JsonEscape(SubSeq(s, 2, Len(s)))

\* JSON.stringify(s) for a string s
JsonString(s) == "\"" \o JsonEscape(s) \o "\""

\* the members of JSON.stringify(object), the values being strings
RECURSIVE JsonMembers(_)
JsonMembers(props) ==
    IF props = <<>> THEN ""
    ELSE JsonString(props[1][1]) \o ":" \o JsonString(props[1][2])
            \o (IF Len(props) > 1 THEN "," ELSE "")
            \o JsonMembers(Tail(props))

\* line 20: `${service}:${endpoint}:${JSON.stringify(sortedParams)}`
KeyText(key) ==
    key[1] \o ":" \o key[2] \o ":" \o "{" \o JsonMembers(key[3]) \o "}"

\* the options objects callers pass: language and timespan, each present,
\* undefined or left out
OptionObjects ==
    {l \o t :
        l \in {<<>>} \cup {<<<<"language", v>>>> : v \in {NoValue, "en", "fr"}},
        t \in {<<>>} \cup {<<<<"timespan", v>>>> : v \in {"1d", "3d"}}}

\* calls of aggregateNews(arg, options) and getNewsByCountry(arg, options);
\* among the queries a country code, and text with the characters JSON uses
KeyCalls ==
    [op : {"aggregated"},
     arg : {"syria", "us", "x", "x\",\"timespan\":\"1d", "x\\"},
     options : OptionObjects]
    \cup [op : {"country"}, arg : {"us", "fr"}, options : OptionObjects]

\* the cache key the call computes, lines 140 and 196
CallKey(c) ==
    KeyText(IF c.op = "aggregated" THEN AggregatedKey(c.arg, c.options)
            ELSE CountryKey(c.arg, c.options))

\* two calls
CallsInit ==
    /\ CoreInit
    /\ mergeIn = <<>>
    /\ paramsIn = <<>>
    /\ config = AllKeys
    /\ keyIn \in KeyCalls \X KeyCalls

\* each of the two calls computes its cache key
CallKeys ==
    /\ keyOut = <<>>
    /\ keyOut' = <<CallKey(keyIn[1]), CallKey(keyIn[2])>>
    /\ UNCHANGED <<now, mergeIn, mergeOut, keyIn>>

CallsNext ==
    CallKeys /\ UNCHANGED <<limVars, clientVars, cacheVars, aggVars, serverVars>>

SpecCalls == CallsInit /\ [][CallsNext]_vars

\* options[name], undefined when the property is left out
OptionOf(options, name) ==
    IF \E i \in 1..Len(options) : options[i][1] = name
    THEN options[CHOOSE i \in 1..Len(options) : options[i][1] = name][2]
    ELSE NoValue

\* the two calls differ in query or country, in language or in timespan
Differ(a, b) ==
    \/ a.arg # b.arg
    \/ OptionOf(a.options, "language") # OptionOf(b.options, "language")
    \/ OptionOf(a.options, "timespan") # OptionOf(b.options, "timespan")

\* C39: a call of aggregateNews and a call of getNewsByCountry never compute
\* the same cache key, and two calls of one operation that differ in query
\* (or country), in language or in timespan never compute the same key; so an
\* entry found under a call's key was written by a call of the same operation
\* with the same parameters.
C39_KeysSeparate ==
    keyOut # <<>> =>
        /\ keyIn[1].op # keyIn[2].op => keyOut[1] # keyOut[2]
        /\ keyIn[1].op = keyIn[2].op /\ Differ(keyIn[1], keyIn[2]) =>
              keyOut[1] # keyOut[2]

\* a query whose text reads like the end of one JSON member and the start of
\* the next, and the plain query with that timespan, got different keys
C39_QuotedQueryApart ==
    /\ keyOut # <<>>
    /\ keyIn[1] = [op |-> "aggregated", arg |-> "x\",\"timespan\":\"1d",
                   options |-> <<>>]
    /\ keyIn[2] = [op |-> "aggregated", arg |-> "x",
                   options |-> <<<<"timespan", "1d">>>>]
    /\ keyOut[2] = "aggregated:news:{\"query\":\"x\",\"timespan\":\"1d\"}"
    /\ keyOut[1] # keyOut[2]

====
